---- MODULE Spec2Model ----
(***************************************************************************)
(* A model of the ingestion and media-resolution core of the Snapchat      *)
(* Parser (src/SnapchatParser_v2.2.py): the recursive archive scan and the *)
(* extraction replay, the loader thread (ZipLoaderThread.run) with its row *)
(* acceptance, reclassification and de-duplication, and the main window's  *)
(* import and tagging handlers.                                            *)
(*                                                                         *)
(* Strings the code takes apart (entry names, internal paths) are modelled *)
(* as sequences of atoms: path components, the separator "/" and the       *)
(* nested-archive delimiter "!".  "a/b.txt" is <<"a", "/", "b.txt">>.      *)
(***************************************************************************)
EXTENDS Integers, Sequences, FiniteSets, TLC

VARIABLES
    disk,            \* the file system: archive path -> file content
    scan,            \* SpecScan: result of scan_zip_recursive on the root
    scratch,         \* the extraction directory: file name -> content
    last,            \* SpecScan: the last replay operation and its result
    media_zip_path,  \* SnapParserMain.media_zip_path
    all_messages,    \* SnapParserMain.all_messages
    conversations,   \* SnapParserMain.conversations
    basenames,       \* SnapParserMain.basenames
    progress_dialog, \* the window-modal MultiProgressDialog is open
    import_error,    \* text of the last "Import Error" box (<<>> when none)
    loader,          \* the ZipLoaderThread: position and local variables
    signal,          \* queued finished_indexing emissions, not yet delivered
    emitted,         \* history: finished_indexing emissions of this loader
    parsed,          \* history: the files the running loader has parsed, with their rows
    prior,           \* history: the session as it was when the running import began
    imports,         \* history: number of imports started
    rows_read,       \* history: number of CSV rows read so far
    token_index,     \* SnapParserMain.token_index
    token_index_built, \* SnapParserMain._token_index_built
    media_lookup_cache, \* SnapParserMain.media_lookup_cache: raw media_id -> locations
    shown,           \* history: the last call of a view operation and what it returned
    active_filters,  \* the filter state of the message table
    conv_selector,   \* the conversation id the selector shows, None for all
    blur_all,        \* SnapParserMain.blur_all
    current_msg_indices, \* SnapParserMain.current_msg_indices
    _cached_all_conversations_indices, \* <<>> for None, else <<the list>>
    _cached_filter_hash,     \* the filter hash the cached list was computed under
    _last_conv_id_displayed, \* the conversation of the last refresh
    _last_filter_hash,       \* the filter hash of the last refresh
    _last_blur_state,        \* <<>> for None, else <<blur_all of the last refresh>>
    _last_displayed_indices, \* <<>> for None, else <<the list last populated>>
    _conversation_cache,     \* (conv_id, filter hash, blur) -> prepared rows, oldest first
    messages_data,   \* MessageTableModel.messages_data: the rows of the table
    dataset,         \* history: number of datasets process_zip_data has installed
    interruption_requested, \* QThread.requestInterruption() was called on the loader
    closing,         \* SnapParserMain.closeEvent: position, and the loader's work at the request
    thumb            \* generate_thumbnail on a video: the caller and the reader thread

vars == <<disk, scan, scratch, last, media_zip_path, all_messages,
          conversations, basenames, progress_dialog, import_error, loader,
          signal, emitted, parsed, prior, imports, rows_read, token_index,
          token_index_built, media_lookup_cache, shown, active_filters,
          conv_selector, blur_all, current_msg_indices,
          _cached_all_conversations_indices, _cached_filter_hash,
          _last_conv_id_displayed, _last_filter_hash, _last_blur_state,
          _last_displayed_indices, _conversation_cache, messages_data, dataset,
          interruption_requested, closing, thumb>>

\* what the views of a loaded session keep
viewVars == <<token_index, token_index_built, media_lookup_cache, shown,
              active_filters, conv_selector>>

scanVars == <<scan, scratch, last>>
sessionVars == <<media_zip_path, all_messages, conversations, basenames,
                 progress_dialog, import_error, loader, signal, emitted,
                 parsed, prior, imports, rows_read>>
cacheVars == <<blur_all, current_msg_indices, _cached_all_conversations_indices,
               _cached_filter_hash, _last_conv_id_displayed, _last_filter_hash,
               _last_blur_state, _last_displayed_indices, _conversation_cache,
               messages_data, dataset>>
threadVars == <<interruption_requested, closing, thumb>>

(***************************************************************************)
(* Bounds of the model.                                                    *)
(***************************************************************************)
\* total number of entries, over all nesting levels, of a scanned archive
MaxEntries == 3
\* imports started in one behaviour of the session
MaxImports == 2
\* CSV rows read in one behaviour of the session
MaxRows == 2

None == "None"

(***************************************************************************)
(* String operations on atom sequences.                                    *)
(***************************************************************************)
\* the letters; a name whose parts the code looks into (a media file name, a
\* media_id) is written one character to the atom
UpperSeq == << "A", "B", "C", "D", "E", "F", "G", "H", "I", "J", "K", "L", "M",
               "N", "O", "P", "Q", "R", "S", "T", "U", "V", "W", "X", "Y", "Z" >>
LowerSeq == << "a", "b", "c", "d", "e", "f", "g", "h", "i", "j", "k", "l", "m",
               "n", "o", "p", "q", "r", "s", "t", "u", "v", "w", "x", "y", "z" >>
Upper == { UpperSeq[i] : i \in DOMAIN UpperSeq }
Lower == { LowerSeq[i] : i \in DOMAIN LowerSeq }
Digit == { "0", "1", "2", "3", "4", "5", "6", "7", "8", "9" }
LowerOf == [c \in Upper |-> LowerSeq[CHOOSE i \in DOMAIN UpperSeq : UpperSeq[i] = c]]

\* str.lower() on one atom
LowerAtom(a) ==
    CASE a = "Conversations.CSV" -> "conversations.csv"
      [] a = "A.ZIP" -> "a.zip"
      [] a \in Upper -> LowerOf[a]
      [] OTHER -> a

\* a lower() that leaves every letter as it is
lower_keeps_case(s) == s

\* str.lower()
lower(s) == [i \in DOMAIN s |-> LowerAtom(s[i])]

\* the atoms that end in ".zip"
ZipAtoms == {"a.zip", "in.zip"}

\* s.endswith('.zip')
endswith_zip(s) == Len(s) > 0 /\ s[Len(s)] \in ZipAtoms

\* ZipInfo.is_dir(): the name ends in "/"
is_dir(name) == Len(name) > 0 /\ name[Len(name)] = "/"

\* index of the last "/" of s, 0 when there is none
LastSlash(s) ==
    LET idx == {i \in DOMAIN s : s[i] = "/"}
    IN  IF idx = {} THEN 0 ELSE CHOOSE i \in idx : \A j \in idx : j <= i

\* os.path.basename
basename(s) == SubSeq(s, LastSlash(s) + 1, Len(s))

\* os.path.dirname
dirname(s) == SubSeq(s, 1, LastSlash(s) - 1)

\* str.split('!')
RECURSIVE split_bang(_)
split_bang(s) ==
    LET idx == {i \in DOMAIN s : s[i] = "!"}
    IN  IF idx = {} THEN <<s>>
        ELSE LET i == CHOOSE k \in idx : \A j \in idx : k <= j
             IN  <<SubSeq(s, 1, i - 1)>> \o split_bang(SubSeq(s, i + 1, Len(s)))

\* the element of a set of one element
Only(S) == CHOOSE y \in S : TRUE

\* the elements of a list
SeqRange(q) == { q[k] : k \in DOMAIN q }

\* str.strip() of a string written one character to the atom
RECURSIVE strip(_)
strip(s) ==
    IF s = <<>> THEN s
    ELSE IF Head(s) = " " THEN strip(Tail(s))
    ELSE IF s[Len(s)] = " " THEN strip(SubSeq(s, 1, Len(s) - 1))
    ELSE s

\* str.count(c)
count(s, c) == Cardinality({ i \in DOMAIN s : s[i] = c })

\* sub in s
contains(s, sub) ==
    \E i \in 0..(Len(s) - Len(sub)) : SubSeq(s, i + 1, i + Len(sub)) = sub

\* the length of the longest run of characters of class C that starts at i
RECURSIVE RunLen(_, _, _)
RunLen(s, i, C) ==
    IF i > Len(s) \/ s[i] \notin C THEN 0 ELSE 1 + RunLen(s, i + 1, C)

\* the character classes of the token patterns
IdChars == Upper \cup Lower \cup Digit \cup {"_", "-"}
WordChars == Upper \cup Lower \cup Digit \cup {"_"}
HexChars == Digit \cup {"a", "b", "c", "d", "e", "f", "A", "B", "C", "D", "E", "F"}

\* the shortest token of patterns 1 and 2, and the length of a hex token
MinTokenLen == 20
HexTokenLen == 32

\* re.findall(r'b~([A-Za-z0-9_\-]{20,})', s) from position i on
RECURSIVE findall_b(_, _)
findall_b(s, i) ==
    IF i > Len(s) THEN <<>>
    ELSE LET n == RunLen(s, i + 2, IdChars)
         IN  IF s[i] = "b" /\ i + 1 <= Len(s) /\ s[i + 1] = "~" /\ n >= MinTokenLen
             THEN <<SubSeq(s, i + 2, i + 1 + n)>> \o findall_b(s, i + 2 + n)
             ELSE findall_b(s, i + 1)

\* re.findall(r'([A-Z][A-Za-z0-9_]{19,})', s) from position i on
RECURSIVE findall_base64(_, _)
findall_base64(s, i) ==
    IF i > Len(s) THEN <<>>
    ELSE IF s[i] \notin Upper THEN findall_base64(s, i + 1)
    ELSE LET n == RunLen(s, i + 1, WordChars)
         IN  IF n >= MinTokenLen - 1
             THEN <<SubSeq(s, i, i + n)>> \o findall_base64(s, i + 1 + n)
             \* no match begins inside a run that is too short
             ELSE findall_base64(s, i + 1 + n)

\* re.findall(r'([0-9a-fA-F]{32})', s) from position i on
RECURSIVE findall_hex(_, _)
findall_hex(s, i) ==
    IF i > Len(s) THEN <<>>
    ELSE LET n == RunLen(s, i, HexChars)
         IN  IF n >= HexTokenLen
             THEN <<SubSeq(s, i, i + HexTokenLen - 1)>> \o findall_hex(s, i + HexTokenLen)
             \* no match begins inside a run that is too short
             ELSE findall_hex(s, i + n + 1)

\* re.search(r'[-_]{2,}', s)
search_double_sep(s) ==
    \E i \in 1..(Len(s) - 1) : s[i] \in {"-", "_"} /\ s[i + 1] \in {"-", "_"}

\* re.match(r'^\d{4}-\d{2}-\d{2}', s)
match_date(s) ==
    /\ Len(s) >= 10
    /\ \A i \in {1, 2, 3, 4, 6, 7, 9, 10} : s[i] \in Digit
    /\ s[5] = "-" /\ s[8] = "-"

(***************************************************************************)
(* Archives.  A ZIP file object is the sequence of its entries (infolist); *)
(* an entry has a name and a content; a content is a blob: whether its     *)
(* bytes form a valid ZIP, the entries if they do, whether it is empty,    *)
(* and id, the place the bytes are stored at (the index path of the entry  *)
(* in the archive tree), which tells the bytes of one entry from those of  *)
(* any other.                                                              *)
(***************************************************************************)
NotZip == [zip |-> FALSE, sub |-> <<>>, empty |-> FALSE]

\* the entries a generated archive may hold besides nested valid ZIPs
LeafEntries ==
    { [name |-> <<"conversations.csv">>] @@ NotZip,
      [name |-> <<"chat", "/", "Conversations.CSV">>] @@ NotZip,
      [name |-> <<"m", "/", "x.jpg">>] @@ NotZip,
      [name |-> <<"n", "/", "x.jpg">>, zip |-> FALSE, sub |-> <<>>, empty |-> TRUE],
      [name |-> <<"we", "!", "rd.txt">>] @@ NotZip,
      [name |-> <<"m", "/">>, zip |-> FALSE, sub |-> <<>>, empty |-> TRUE],
      [name |-> <<"A.ZIP">>] @@ NotZip }

ZipNames == { <<"A.ZIP">> }

\* the archives with exactly n entries over all nesting levels, no two
\* entries of one archive bearing the same name
RECURSIVE ArchivesOfSize(_)
ArchivesOfSize(n) ==
    IF n = 0 THEN { <<>> }
    ELSE UNION { { <<c[1]>> \o c[2] :
                     c \in { d \in ((IF k = 1 THEN LeafEntries ELSE {})
                                    \cup { [name |-> zn, zip |-> TRUE, sub |-> s, empty |-> FALSE] :
                                             zn \in ZipNames, s \in ArchivesOfSize(k - 1) })
                                   \X ArchivesOfSize(n - k) :
                             \A i \in DOMAIN d[2] : d[2][i].name # d[1].name } } : k \in 1..n }

ArchiveSet == UNION { ArchivesOfSize(n) : n \in 0..MaxEntries }

Root == "R.zip"

\* the bytes of entry i of the archive whose bytes are cur
Blob(cur, i) ==
    [id |-> Append(cur.id, i), readable |-> TRUE, zip |-> cur.sub[i].zip,
     sub |-> cur.sub[i].sub, empty |-> cur.sub[i].empty]

\* a file on disk holding the archive a
ZipOnDisk(a) == [id |-> <<>>, readable |-> TRUE, zip |-> TRUE, sub |-> a, empty |-> FALSE]

\* a file on disk that is not a ZIP archive
GarbageOnDisk == [id |-> <<>>, readable |-> TRUE, zip |-> FALSE, sub |-> <<>>, empty |-> FALSE]

\* a file of no bytes
EmptyFile == [id |-> <<>>, readable |-> TRUE, zip |-> FALSE, sub |-> <<>>, empty |-> TRUE]

\* a file on disk that cannot be opened
UnreadableOnDisk == [id |-> <<>>, readable |-> FALSE, zip |-> FALSE, sub |-> <<>>, empty |-> FALSE]

(***************************************************************************)
(* scan_zip_recursive.  _scan walks infolist() in order from entry i on    *)
(* and returns what it appends to entries and conv_files.                  *)
(***************************************************************************)
NoEntries == [entries |-> <<>>, conv_files |-> <<>>]

\* a walk that gives up the level it is in at a nested *.zip that is no ZIP
RECURSIVE _scan_gives_up(_, _, _, _)
_scan_gives_up(zpath, zfile, prefix, i) ==
    IF i > Len(zfile) THEN NoEntries
    ELSE LET name == zfile[i].name
             internal == prefix \o name
             conv == IF lower(basename(name)) = <<"conversations.csv">>
                     THEN << <<zpath, internal>> >> ELSE <<>>
             is_zip == endswith_zip(lower(name)) /\ ~is_dir(name)
             nested == IF is_zip /\ zfile[i].zip
                       THEN _scan_gives_up(zpath, zfile[i].sub, internal \o <<"!">>, 1)
                       ELSE NoEntries
             rest == IF is_zip /\ ~zfile[i].zip THEN NoEntries
                     ELSE _scan_gives_up(zpath, zfile, prefix, i + 1)
         IN  [entries |-> << <<zpath, internal>> >> \o nested.entries \o rest.entries,
              conv_files |-> conv \o nested.conv_files \o rest.conv_files]

RECURSIVE _scan(_, _, _, _)
_scan(zpath, zfile, prefix, i) ==
    IF i > Len(zfile) THEN NoEntries
    ELSE LET name == zfile[i].name
             internal == prefix \o name
             conv == IF lower(basename(name)) = <<"conversations.csv">>
                     THEN << <<zpath, internal>> >> ELSE <<>>
             \* zipfile.ZipFile(io.BytesIO(data)) raises BadZipFile, caught
             nested == IF endswith_zip(lower(name)) /\ ~is_dir(name) /\ zfile[i].zip
                       THEN _scan(zpath, zfile[i].sub, internal \o <<"!">>, 1)
                       ELSE NoEntries
             rest == _scan(zpath, zfile, prefix, i + 1)
         IN  [entries |-> << <<zpath, internal>> >> \o nested.entries \o rest.entries,
              conv_files |-> conv \o nested.conv_files \o rest.conv_files]

scan_zip_recursive(zip_path) ==
    IF ~disk[zip_path].readable THEN [exc |-> "OSError"] @@ NoEntries
    ELSE IF ~disk[zip_path].zip THEN [exc |-> "BadZipFile"] @@ NoEntries
    ELSE [exc |-> ""] @@ _scan(zip_path, disk[zip_path].sub, <<>>, 1)

(***************************************************************************)
(* Extraction replay.                                                      *)
(***************************************************************************)
\* ZipFile.getinfo: the last entry of that name, 0 for KeyError
EntryIndex(z, part) ==
    LET idx == {i \in DOMAIN z.sub : z.sub[i].name = part}
    IN  IF idx = {} THEN 0 ELSE CHOOSE i \in idx : \A j \in idx : j <= i

\* get_file_bytes_from_zip from part k on, cur being the archive's bytes;
\* ok FALSE (None) for anything the bare except catches
RECURSIVE get_file_bytes_from(_, _, _)
get_file_bytes_from(cur, parts, k) ==
    IF k > Len(parts) \/ ~cur.readable \/ ~cur.zip THEN [ok |-> FALSE, bytes |-> EmptyFile]
    ELSE LET part == parts[k]
             i == EntryIndex(cur, part)
         IN  IF i = 0 THEN [ok |-> FALSE, bytes |-> EmptyFile]
             ELSE IF part = parts[Len(parts)] THEN [ok |-> TRUE, bytes |-> Blob(cur, i)]
             ELSE get_file_bytes_from(Blob(cur, i), parts, k + 1)

get_file_bytes_from_zip(zip_path, internal) ==
    get_file_bytes_from(disk[zip_path], split_bang(internal), 1)

\* an extraction that writes the destination whether or not it exists
RECURSIVE extract_from_rewriting(_, _, _, _)
extract_from_rewriting(cur, parts, k, dir) ==
    IF k > Len(parts) \/ ~cur.readable \/ ~cur.zip THEN [ok |-> FALSE, dest |-> <<>>, dir |-> dir]
    ELSE LET part == parts[k]
             i == EntryIndex(cur, part)
             dest == basename(part)
         IN  IF k = Len(parts)
             THEN IF dest = <<>> THEN [ok |-> FALSE, dest |-> <<>>, dir |-> dir]
                  ELSE IF i = 0
                  THEN [ok |-> FALSE, dest |-> <<>>, dir |-> (dest :> EmptyFile) @@ dir]
                  ELSE [ok |-> TRUE, dest |-> dest, dir |-> (dest :> Blob(cur, i)) @@ dir]
             ELSE IF i = 0 THEN [ok |-> FALSE, dest |-> <<>>, dir |-> dir]
             ELSE extract_from_rewriting(Blob(cur, i), parts, k + 1, dir)

\* extract_file_from_zip from part k on: the destination name and the
\* directory afterwards; ok FALSE (None) for a caught exception
RECURSIVE extract_from(_, _, _, _)
extract_from(cur, parts, k, dir) ==
    IF k > Len(parts) \/ ~cur.readable \/ ~cur.zip THEN [ok |-> FALSE, dest |-> <<>>, dir |-> dir]
    ELSE LET part == parts[k]
             i == EntryIndex(cur, part)
             dest == basename(part)
         IN  IF k = Len(parts)
             THEN IF dest \in DOMAIN dir /\ ~dir[dest].empty
                  THEN [ok |-> TRUE, dest |-> dest, dir |-> dir]
                  \* open(dest, 'wb') of the directory itself raises
                  ELSE IF dest = <<>> THEN [ok |-> FALSE, dest |-> <<>>, dir |-> dir]
                  \* open() has truncated dest before z.open(part) raises KeyError
                  ELSE IF i = 0
                  THEN [ok |-> FALSE, dest |-> <<>>, dir |-> (dest :> EmptyFile) @@ dir]
                  ELSE [ok |-> TRUE, dest |-> dest, dir |-> (dest :> Blob(cur, i)) @@ dir]
             ELSE IF i = 0 THEN [ok |-> FALSE, dest |-> <<>>, dir |-> dir]
             ELSE extract_from(Blob(cur, i), parts, k + 1, dir)

extract_file_from_zip(zip_path, internal_name, dir) ==
    extract_from(disk[zip_path], split_bang(internal_name), 1, dir)

(***************************************************************************)
(* The session (SnapParserMain) and the loader thread at rest.             *)
(***************************************************************************)
\* an empty dict
EmptyMap == [k \in {} |-> <<>>]

\* ZipLoaderThread before run(): no local is bound
LoaderIdle ==
    [pc |-> "idle", zip_path |-> None, all_messages |-> <<>>,
     conversations |-> EmptyMap, basenames |-> <<>>, conv_files |-> <<>>,
     token_index |-> "unbound", error_message |-> <<>>, file_idx |-> 0,
     seen_message_signatures |-> {}]

\* what the claims compare across a failed import
Session ==
    [all_messages |-> all_messages, conversations |-> conversations,
     basenames |-> basenames, media_zip_path |-> media_zip_path]

\* no import is under way
NoSession ==
    [all_messages |-> <<>>, conversations |-> EmptyMap, basenames |-> <<>>,
     media_zip_path |-> None]

\* a date filter that is None, and one that is a timestamp
NoDate == <<>>
Date(t) == <<t>>

\* active_filters as __init__ sets it, and as an import and clear_all_filters
\* reset it
InitFilters ==
    [from_date |-> NoDate, to_date |-> NoDate, sender_username |-> None,
     message_type |-> None, content_type |-> None, is_saved |-> None,
     is_saved_display |-> "All Messages"]
ResetFilters ==
    [from_date |-> NoDate, to_date |-> NoDate, sender_username |-> None,
     message_type |-> None, content_type |-> None, saved_by |-> None,
     is_saved_display |-> "All Messages"]

\* token_index = None, and a token index that is a dict
NoneIndex == [is_none |-> TRUE, map |-> EmptyMap]
DictIndex(ti) == [is_none |-> FALSE, map |-> ti]

\* no view operation was called yet
NothingShown == [op |-> "none"]

\* the main window as __init__ leaves it: nothing cached, nothing shown
NoHash == <<>>
InitTable ==
    /\ blur_all = FALSE
    /\ current_msg_indices = <<>>
    /\ _cached_all_conversations_indices = <<>>
    /\ _cached_filter_hash = NoHash
    /\ _last_conv_id_displayed = None
    /\ _last_filter_hash = NoHash
    /\ _last_blur_state = <<>>
    /\ _last_displayed_indices = <<>>
    /\ _conversation_cache = <<>>
    /\ messages_data = <<>>
    /\ dataset = 0

\* generate_thumbnail was not called yet: no cap, no reader thread, an empty
\* result queue, an empty thumb_dir
NoThumbnailCall ==
    [pc |-> "idle", media |-> 0, reader |-> "none", result_queue |-> <<>>,
     waited |-> 0, ret |-> FALSE, result |-> <<>>, thumb_dir |-> {}, calls |-> 0]

\* no close was asked for, no thumbnail is being made
InitThreads ==
    /\ interruption_requested = FALSE
    /\ closing = [pc |-> "open", parsed |-> 0]
    /\ thumb = NoThumbnailCall

\* SnapParserMain.__init__
InitSession ==
    /\ media_zip_path = None
    /\ all_messages = <<>>
    /\ conversations = EmptyMap
    /\ basenames = <<>>
    /\ progress_dialog = FALSE
    /\ import_error = <<>>
    /\ loader = LoaderIdle
    /\ signal = <<>>
    /\ emitted = 0
    /\ parsed = <<>>
    /\ prior = NoSession
    /\ imports = 0
    /\ rows_read = 0
    /\ token_index = NoneIndex
    /\ token_index_built = FALSE
    /\ media_lookup_cache = EmptyMap
    /\ shown = NothingShown
    /\ active_filters = InitFilters
    /\ conv_selector = None
    /\ InitTable
    /\ InitThreads

(***************************************************************************)
(* SpecScan: the archive index and the extraction replay on one root       *)
(* archive drawn from ArchiveSet, or on a root that is no ZIP.             *)
(***************************************************************************)
InitScan ==
    /\ disk \in { (Root :> f) : f \in { ZipOnDisk(a) : a \in ArchiveSet } \cup { GarbageOnDisk } }
    /\ scan = [state |-> "none", exc |-> ""] @@ NoEntries
    /\ scratch = EmptyMap
    /\ last = [op |-> "none", loc |-> 0, ok |-> FALSE, bytes |-> EmptyFile]
    /\ InitSession

\* entries, conv_files = scan_zip_recursive(zip_path)
ScanRoot ==
    /\ scan.state = "none"
    /\ scan' = [state |-> "done"] @@ scan_zip_recursive(Root)
    /\ UNCHANGED <<disk, cacheVars, threadVars, viewVars, scratch, last, sessionVars>>

\* get_file_bytes_from_zip(zpath, internal) for a location the scan returned
ReadLocation ==
    /\ scan.state = "done"
    /\ \E k \in DOMAIN scan.entries :
         LET r == get_file_bytes_from_zip(scan.entries[k][1], scan.entries[k][2])
         IN  last' = [op |-> "read", loc |-> k, ok |-> r.ok, bytes |-> r.bytes]
    /\ UNCHANGED <<disk, cacheVars, threadVars, viewVars, scan, scratch, sessionVars>>

\* extract_file_from_zip(zpath, internal, media_extract_dir) for a location
\* the scan returned; bytes is what the returned path holds afterwards
ExtractLocation ==
    /\ scan.state = "done"
    /\ \E k \in DOMAIN scan.entries :
         LET r == extract_file_from_zip(scan.entries[k][1], scan.entries[k][2], scratch)
         IN  /\ scratch' = r.dir
             /\ last' = [op |-> "extract", loc |-> k, ok |-> r.ok,
                         bytes |-> IF r.ok THEN r.dir[r.dest] ELSE EmptyFile]
    /\ UNCHANGED <<disk, cacheVars, threadVars, viewVars, scan, sessionVars>>

NextScan == ScanRoot \/ ReadLocation \/ ExtractLocation

SpecScan == InitScan /\ [][NextScan]_vars

(***************************************************************************)
(* build_media_index(zip_path, build_token_index=False): the basenames     *)
(* list and the conversation files; the token index stays empty.  exc      *)
(* names what the call raises.                                             *)
(***************************************************************************)
RECURSIVE basenames_of(_, _)
basenames_of(entries, k) ==
    IF k > Len(entries) THEN <<>>
    ELSE LET base == basename(entries[k][2])
         IN  (IF base = <<>> THEN <<>> ELSE << <<base, entries[k][1], entries[k][2]>> >>)
             \o basenames_of(entries, k + 1)

build_media_index(zip_path) ==
    LET r == scan_zip_recursive(zip_path)
    IN  IF r.exc = "BadZipFile"
        THEN [exc |-> "BadZipFile", basenames |-> <<>>, conv_files |-> <<>>]
        \* except Exception: the return names conv_files, which is not bound
        ELSE IF r.exc # ""
        THEN [exc |-> "UnboundLocalError", basenames |-> <<>>, conv_files |-> <<>>]
        ELSE [exc |-> "", basenames |-> basenames_of(r.entries, 1),
              conv_files |-> r.conv_files]

(***************************************************************************)
(* Rows of a conversations.csv as pandas hands them over: a missing value  *)
(* (NA) is <<>> and a missing timestamp (NaT) is NaT.                        *)
(***************************************************************************)
NaT == 0

\* sender_username, timestamp, media_id: all present, or one of them missing
MediaTriples ==
    { [sender_username |-> "alice", timestamp |-> 1, media_id |-> <<"m", "1">>],
      [sender_username |-> "", timestamp |-> 1, media_id |-> <<"m", "1">>],
      [sender_username |-> "alice", timestamp |-> NaT, media_id |-> <<"m", "1">>],
      [sender_username |-> "alice", timestamp |-> 1, media_id |-> <<>>] }

RowSet ==
    { [conversation_id |-> c, content_type |-> t, text |-> x] @@ m :
        c \in {"", "c1"}, t \in {"", "TEXT"}, m \in MediaTriples, x \in {"hi"} }
    \cup
    { [conversation_id |-> c, content_type |-> t, text |-> "yo",
       sender_username |-> "alice", timestamp |-> 1, media_id |-> <<"m", "1">>] :
        c \in {"", "c1"}, t \in {"", "TEXT"} }

\* the rows drawn while whole sessions are explored: a normal row, the same
\* with another text, a flagged-media row, and a row without conversation
SessionRows ==
    { r \in RowSet :
        /\ r.sender_username # "" /\ r.timestamp # NaT /\ r.media_id # <<>>
        /\ \/ r.conversation_id # "" /\ r.content_type # ""
           \/ r.conversation_id = "" /\ r.text = "hi" }

\* the data rows of one file: at most n of them, each from R
RowSeqs(R, n) == UNION { [1..k -> R] : k \in 0..n }

REPORTED_FILES == "__REPORTED_FILES__"

\* the source label: folder + "/" + csv filename, or the filename alone
source_label(internal_conv) ==
    LET csv_name == basename(internal_conv)
        folder_name == basename(dirname(internal_conv))
    IN  IF folder_name # <<>> THEN folder_name \o <<"/">> \o csv_name ELSE csv_name

\* dict.get
Get(msg, k, default) == IF k \in DOMAIN msg THEN msg[k] ELSE default

\* normal_rows_mask | flagged_media_mask
row_mask(row) ==
    \/ row.content_type # "" /\ row.conversation_id # ""
    \/ row.sender_username # "" /\ row.timestamp # NaT /\ row.media_id # <<>>

\* a reclassification that tags the flagged row on its own
message_of_autotag(row, source, source_line) ==
    LET msg == row @@ [source |-> source, source_line |-> source_line]
    IN  IF /\ msg.sender_username # "" /\ msg.timestamp # NaT /\ msg.media_id # <<>>
           /\ msg.conversation_id = "" /\ msg.content_type = ""
        THEN [msg EXCEPT !.conversation_id = REPORTED_FILES]
             @@ [conversation_title |-> "Reported Files", is_flagged_media |-> TRUE,
                 tags |-> {"Reported"}]
        ELSE msg

\* the message dict of a row, after the reclassification of flagged media
message_of(row, source, source_line) ==
    LET msg == row @@ [source |-> source, source_line |-> source_line]
        has_required_fields ==
            msg.sender_username # "" /\ msg.timestamp # NaT /\ msg.media_id # <<>>
        missing_both == msg.conversation_id = "" /\ msg.content_type = ""
    IN  IF has_required_fields /\ missing_both
        THEN [msg EXCEPT !.conversation_id = REPORTED_FILES]
             @@ [conversation_title |-> "Reported Files", is_flagged_media |-> TRUE,
                 tags |-> {}]
        ELSE msg

\* one normalised value of the canonical signature
norm_v(k, v) ==
    IF k = "tags" THEN <<"__set__", v>>
    ELSE IF k = "timestamp" /\ v # NaT THEN <<"__dt__", v>>
    ELSE IF k = "is_flagged_media" THEN <<"str", IF v THEN "True" ELSE "False">>
    ELSE IF k = "timestamp" THEN <<"str", "">>
    ELSE <<"str", v>>

\* a signature that leaves the text out
sig_tuple_without_text(msg) == [k \in DOMAIN msg \ {"text"} |-> norm_v(k, msg[k])]

\* sig_tuple: the sorted (key, normalised value) items of every field
sig_tuple(msg) == [k \in DOMAIN msg |-> norm_v(k, msg[k])]

\* a membership test that never finds the signature
never_duplicate(sig, seen) == FALSE

\* sig_tuple in seen_message_signatures
is_duplicate(sig, seen) == sig \in seen

\* an index assignment that counts from one
message_index_from_one(messages) == Len(messages) + 1

\* message_index = len(all_messages): the dataset-wide index of the message
\* about to be appended
message_index(messages) == Len(messages)

\* the rows of one file from row i on (df index i - 1): st holds all_messages,
\* conversations and seen_message_signatures
RECURSIVE process_rows(_, _, _, _, _)
process_rows(rows, i, source, skip, st) ==
    IF i > Len(rows) THEN st
    ELSE IF ~row_mask(rows[i]) THEN process_rows(rows, i + 1, source, skip, st)
    ELSE LET msg == message_of(rows[i], source, skip + 2 + (i - 1))
             conv_id == msg.conversation_id
             sig == sig_tuple(msg)
             kept == IF "tags" \in DOMAIN msg THEN msg ELSE msg @@ [tags |-> {}]
         IN  IF conv_id = "" \/ is_duplicate(sig, st.seen_message_signatures)
             THEN process_rows(rows, i + 1, source, skip, st)
             ELSE process_rows(rows, i + 1, source, skip,
                    [all_messages |-> Append(st.all_messages, kept),
                     conversations |->
                         (conv_id :> Append(Get(st.conversations, conv_id, <<>>),
                                            message_index(st.all_messages)))
                         @@ st.conversations,
                     seen_message_signatures |-> st.seen_message_signatures \cup {sig}])

(***************************************************************************)
(* Spec: the import of archives into the session.  The disk holds five     *)
(* files; what a conversations.csv contains is drawn when the loader reads *)
(* it.                                                                     *)
(***************************************************************************)
File(name) == [name |-> name] @@ NotZip

SessionDisk ==
    \* two conversations.csv of the same folder name, one in a nested
    \* archive, and a nested *.zip that is no archive
    "A.zip" :> ZipOnDisk(<<
        File(<<"d1", "/", "chat", "/", "conversations.csv">>),
        File(<<"A.ZIP">>),
        [name |-> <<"in.zip">>, zip |-> TRUE, empty |-> FALSE, sub |-> <<
            File(<<"d2", "/", "chat", "/", "conversations.csv">>),
            File(<<"m", "/", "x.jpg">>) >>] >>)
    \* no conversations.csv at all
    @@ "B.zip" :> ZipOnDisk(<< File(<<"m", "/", "x.jpg">>) >>)
    \* a conversations.csv of no bytes beside a readable one
    @@ "C.zip" :> ZipOnDisk(<<
        [name |-> <<"conversations.csv">>, zip |-> FALSE, sub |-> <<>>, empty |-> TRUE],
        File(<<"chat", "/", "Conversations.CSV">>) >>)
    \* not a ZIP archive
    @@ "bad.zip" :> GarbageOnDisk
    \* cannot be opened
    @@ "locked.zip" :> UnreadableOnDisk

Tags == {"Evidence"}

Init ==
    /\ disk = SessionDisk
    /\ scan = [state |-> "none", exc |-> ""] @@ NoEntries
    /\ scratch = EmptyMap
    /\ last = [op |-> "none", loc |-> 0, ok |-> FALSE, bytes |-> EmptyFile]
    /\ InitSession

\* import_zip_dialog with a path chosen, and start_zip_loader.  The progress
\* dialog is window-modal: while it is open the main window takes no input.
import_zip_dialog ==
    /\ closing.pc = "open"
    /\ ~progress_dialog
    /\ imports < MaxImports
    /\ \E path \in DOMAIN disk :
         /\ media_zip_path' = path
         /\ loader' = [LoaderIdle EXCEPT !.pc = "index", !.zip_path = path]
    /\ prior' = Session
    /\ progress_dialog' = TRUE
    /\ emitted' = 0
    /\ parsed' = <<>>
    /\ imports' = imports + 1
    /\ UNCHANGED <<disk, cacheVars, threadVars, viewVars, scanVars, all_messages, conversations, basenames,
                   import_error, signal, rows_read>>

\* ZipLoaderThread.run, phase 1: build_media_index and the check of conv_files
LoaderIndex ==
    /\ loader.pc = "index"
    /\ LET r == build_media_index(loader.zip_path)
       IN  IF r.exc = "BadZipFile"
           THEN loader' = [loader EXCEPT !.pc = "emit",
                             !.error_message = << <<"Failed to open ZIP file", loader.zip_path>> >>]
           ELSE IF r.exc # ""
           THEN loader' = [loader EXCEPT !.pc = "emit",
                             !.error_message = << <<"An unexpected error occurred", r.exc>> >>]
           ELSE IF r.conv_files = <<>>
           \* emits ([], {}, basenames, [], {}, error_message) and returns
           THEN /\ loader' = [LoaderIdle EXCEPT !.pc = "done"]
                /\ signal' = Append(signal,
                      [all_messages |-> <<>>, conversations |-> EmptyMap,
                       basenames |-> r.basenames, conv_files |-> <<>>,
                       error_message |-> << <<"Could not find 'conversations.csv'">> >>])
                /\ emitted' = emitted + 1
           ELSE loader' = [loader EXCEPT !.pc = "parse", !.basenames = r.basenames,
                             !.conv_files = r.conv_files, !.token_index = "bound",
                             !.file_idx = 1]
    /\ (loader'.pc # "done") => UNCHANGED <<signal, emitted>>
    /\ UNCHANGED <<disk, cacheVars, threadVars, viewVars, scanVars, media_zip_path, all_messages, conversations,
                   basenames, progress_dialog, import_error, parsed, prior,
                   imports, rows_read>>

\* a loop that leaves for the emit after its first pass
NextFile_first_only(l) == [l EXCEPT !.pc = "emit"]

\* the loop over conv_files leaves for the emit after the last file
NextFile(l) ==
    IF l.file_idx >= Len(l.conv_files)
    THEN [l EXCEPT !.pc = "emit"] ELSE [l EXCEPT !.file_idx = l.file_idx + 1]

\* phase 2, one pass of the loop: get_file_bytes_from_zip fails or returns
\* no bytes
LoaderReadFails ==
    /\ loader.pc = "parse"
    /\ LET loc == loader.conv_files[loader.file_idx]
           raw_data == get_file_bytes_from_zip(loc[1], loc[2])
       IN  /\ ~raw_data.ok \/ raw_data.bytes.empty
           /\ loader' = NextFile([loader EXCEPT !.error_message =
                                    Append(@, <<"Failed to read", loc[2]>>)])
           /\ parsed' = Append(parsed, [internal |-> loc[2], source |-> <<>>,
                                        skip |-> 0, rows |-> <<>>, ok |-> FALSE,
                                        lacks |-> None])
    /\ UNCHANGED <<disk, cacheVars, threadVars, viewVars, scanVars, media_zip_path, all_messages, conversations,
                   basenames, progress_dialog, import_error, signal, emitted,
                   prior, imports, rows_read>>

\* one pass of the loop: the bytes are read and pandas raises on them
LoaderParseFails ==
    /\ loader.pc = "parse"
    /\ LET loc == loader.conv_files[loader.file_idx]
           raw_data == get_file_bytes_from_zip(loc[1], loc[2])
       IN  /\ raw_data.ok /\ ~raw_data.bytes.empty
           /\ loader' = NextFile([loader EXCEPT !.error_message =
                                    Append(@, <<"Failed to parse CSV", loc[2]>>)])
           /\ parsed' = Append(parsed, [internal |-> loc[2], source |-> <<>>,
                                        skip |-> 0, rows |-> <<>>, ok |-> FALSE,
                                        lacks |-> None])
    /\ UNCHANGED <<disk, cacheVars, threadVars, viewVars, scanVars, media_zip_path, all_messages, conversations,
                   basenames, progress_dialog, import_error, signal, emitted,
                   prior, imports, rows_read>>

\* the columns the row filter takes from the frame by name
MaskColumns ==
    {"content_type", "conversation_id", "sender_username", "timestamp", "media_id"}

\* a row of a file whose header lacks the column
Without(row, lacks) == [k \in DOMAIN row \ {lacks} |-> row[k]]

\* one pass of the loop: skip lines of preamble, the header, and data rows,
\* which are filtered, reclassified, de-duplicated and appended.  The header
\* has every column, or lacks one of L: taking a column the frame does not
\* have raises KeyError, which the last except clause of the pass catches
LoaderParse(R, L) ==
    /\ loader.pc = "parse"
    /\ LET loc == loader.conv_files[loader.file_idx]
           raw_data == get_file_bytes_from_zip(loc[1], loc[2])
       IN  /\ raw_data.ok /\ ~raw_data.bytes.empty
           /\ \E lacks \in L :
                IF lacks \in MaskColumns
                THEN /\ loader' = NextFile([loader EXCEPT !.error_message =
                                    Append(@, <<"Unknown error parsing", loc[2]>>)])
                     /\ parsed' = Append(parsed, [internal |-> loc[2], source |-> <<>>,
                                    skip |-> 0, rows |-> <<>>, ok |-> FALSE,
                                    lacks |-> lacks])
                     /\ UNCHANGED rows_read
                ELSE
                \E skip \in 0..(MaxRows - rows_read) :
                \E full \in RowSeqs(R, MaxRows - rows_read - skip) :
                  LET rows == [n \in DOMAIN full |-> Without(full[n], lacks)]
                      st == process_rows(rows, 1, source_label(loc[2]), skip,
                              [all_messages |-> loader.all_messages,
                               conversations |-> loader.conversations,
                               seen_message_signatures |-> loader.seen_message_signatures])
                  IN  /\ loader' = NextFile([loader EXCEPT
                                      !.all_messages = st.all_messages,
                                      !.conversations = st.conversations,
                                      !.seen_message_signatures = st.seen_message_signatures])
                      /\ parsed' = Append(parsed, [internal |-> loc[2],
                                      source |-> source_label(loc[2]), skip |-> skip,
                                      rows |-> rows, ok |-> TRUE, lacks |-> lacks])
                      /\ rows_read' = rows_read + skip + Len(rows)
    /\ UNCHANGED <<disk, cacheVars, threadVars, viewVars, scanVars, media_zip_path, all_messages, conversations,
                   basenames, progress_dialog, import_error, signal, emitted,
                   prior, imports>>

\* a pass over a file whose header has every column
LoaderParseFile(R) == LoaderParse(R, {None})

\* a pass over a file whose header lacks one of the columns of the rows
LoaderParseLacking(R) == LoaderParse(R, MaskColumns \cup {"text"})

\* the last statement of run: finished_indexing.emit(..., token_index,
\* error_message); naming token_index while it is not bound raises
\* UnboundLocalError, which nothing catches, and the thread ends
LoaderEmit ==
    /\ loader.pc = "emit"
    /\ IF loader.token_index = "unbound"
       THEN /\ loader' = [LoaderIdle EXCEPT !.pc = "died"]
            /\ UNCHANGED <<signal, emitted>>
       ELSE /\ loader' = [LoaderIdle EXCEPT !.pc = "done"]
            /\ signal' = Append(signal,
                  [all_messages |-> loader.all_messages,
                   conversations |-> loader.conversations,
                   basenames |-> loader.basenames, conv_files |-> loader.conv_files,
                   error_message |-> loader.error_message])
            /\ emitted' = emitted + 1
    /\ parsed' = <<>>
    /\ UNCHANGED <<disk, cacheVars, threadVars, viewVars, scanVars, media_zip_path, all_messages, conversations,
                   basenames, progress_dialog, import_error, prior, imports,
                   rows_read>>

\* the elements of q that are in S, in order
RECURSIVE SelectIn(_, _)
SelectIn(q, S) ==
    IF q = <<>> THEN <<>>
    ELSE (IF Head(q) \in S THEN <<Head(q)>> ELSE <<>>) \o SelectIn(Tail(q), S)

\* the columns of messages_df: every key of every message
columns == UNION { DOMAIN all_messages[n] : n \in DOMAIN all_messages }

\* the values the combo boxes of the dialog offer
unique_values(key) ==
    { Get(all_messages[n], key, "") : n \in DOMAIN all_messages } \ {""}

\* a mask in which a sender filter stands in for the date filter
passes_last_filter_only(i, filters) ==
    LET msg == all_messages[i + 1]
    IN  IF "sender_username" \in DOMAIN filters
        THEN msg.sender_username = filters.sender_username
        ELSE /\ filters.from_date # NoDate
                 => msg.timestamp # NaT /\ msg.timestamp >= filters.from_date[1]
             /\ filters.to_date # NoDate
                 => msg.timestamp # NaT /\ msg.timestamp < filters.to_date[1]

\* the row of messages_df with original_index i passes every active filter
passes(i, filters) ==
    LET msg == all_messages[i + 1]
    IN  /\ filters.from_date # NoDate
            => msg.timestamp # NaT /\ msg.timestamp >= filters.from_date[1]
        /\ filters.to_date # NoDate
            => msg.timestamp # NaT /\ msg.timestamp < filters.to_date[1]
        /\ \A key \in {"sender_username", "message_type", "content_type", "saved_by"} :
              (Get(filters, key, None) # None /\ key \in columns)
                  => key \in DOMAIN msg /\ msg[key] = filters[key]

\* message_indices: the indices of one conversation, of all, or none
message_indices(conv_id) ==
    IF conv_id \notin {None, ""} /\ conv_id \in DOMAIN conversations
    THEN conversations[conv_id]
    ELSE IF conv_id = None THEN [n \in DOMAIN all_messages |-> n - 1]
    ELSE <<>>

\* messages_df[mask]: the rows of the mask
masked(conv_id, filters) ==
    { i \in SeqRange(message_indices(conv_id)) : passes(i, filters) }

\* the orders of the indices of S
Orders(S) ==
    { q \in [1..Cardinality(S) -> S] : \A a, b \in DOMAIN q : a # b => q[a] # q[b] }

\* sort_values(by='timestamp', ascending=True): the default sort is not a
\* stable one, so rows of equal timestamp come in any order; rows without
\* a timestamp come last, in index order
sort_values(S) ==
    { q \in Orders(S) :
        \A a, b \in DOMAIN q :
            a < b => LET x == all_messages[q[a] + 1].timestamp
                         y == all_messages[q[b] + 1].timestamp
                     IN  IF y = NaT THEN x # NaT \/ q[a] < q[b]
                         ELSE x # NaT /\ x <= y }

\* get_filtered_messages(conv_id): the lists of indices it can return
get_filtered_messages(conv_id, filters) ==
    IF all_messages = <<>> \/ message_indices(conv_id) = <<>> THEN { <<>> }
    ELSE IF "timestamp" \in columns THEN sort_values(masked(conv_id, filters))
    ELSE { SelectIn([n \in DOMAIN all_messages |-> n - 1], masked(conv_id, filters)) }

(***************************************************************************)
(* The message table: what refresh_message_table and                       *)
(* populate_message_table keep between calls.  A list that can be None is  *)
(* <<>> for None and <<list>> otherwise; a row of the table model holds    *)
(* the message object itself, so it carries the number of the dataset the  *)
(* message belongs to.                                                     *)
(***************************************************************************)
\* the keys a filter state can have, in sorted order
FilterKeys ==
    << "content_type", "from_date", "is_saved", "is_saved_display",
       "message_type", "saved_by", "sender_username", "to_date" >>

\* hashlib.md5(str(sorted(self.active_filters.items())).encode()).hexdigest():
\* the sorted items stand for their digest
filter_hash(filters) ==
    LET ks == SelectSeq(FilterKeys, LAMBDA k : k \in DOMAIN filters)
    IN  [i \in DOMAIN ks |-> <<ks[i], filters[ks[i]]>>]

\* the entries _conversation_cache keeps
ConversationCacheLimit == 10

\* the table and its caches as one value
Table ==
    [blur_all |-> blur_all, current_msg_indices |-> current_msg_indices,
     _cached_all_conversations_indices |-> _cached_all_conversations_indices,
     _cached_filter_hash |-> _cached_filter_hash,
     _last_conv_id_displayed |-> _last_conv_id_displayed,
     _last_filter_hash |-> _last_filter_hash,
     _last_blur_state |-> _last_blur_state,
     _last_displayed_indices |-> _last_displayed_indices,
     _conversation_cache |-> _conversation_cache, messages_data |-> messages_data]

\* the table and its caches become t
SetTable(t) ==
    /\ blur_all' = t.blur_all
    /\ current_msg_indices' = t.current_msg_indices
    /\ _cached_all_conversations_indices' = t._cached_all_conversations_indices
    /\ _cached_filter_hash' = t._cached_filter_hash
    /\ _last_conv_id_displayed' = t._last_conv_id_displayed
    /\ _last_filter_hash' = t._last_filter_hash
    /\ _last_blur_state' = t._last_blur_state
    /\ _last_displayed_indices' = t._last_displayed_indices
    /\ _conversation_cache' = t._conversation_cache
    /\ messages_data' = t.messages_data

\* populate_message_table(all_messages, ..., conv_id): the rows cached under
\* (conv_id, filter hash, blur_all) are handed to the model as they are;
\* else the rows are prepared from current_msg_indices, cached, and the
\* oldest entry dropped from a cache grown past its limit
populate_message_table(conv_id, current_filter_hash, t, msgs, n) ==
    LET cache_key == <<conv_id, current_filter_hash, t.blur_all>>
        hits == { i \in DOMAIN t._conversation_cache :
                      t._conversation_cache[i].cache_key = cache_key }
        rows == [r \in DOMAIN t.current_msg_indices |->
                   [msg_index |-> t.current_msg_indices[r],
                    msg |-> msgs[t.current_msg_indices[r] + 1],
                    conv_id |-> conv_id, dataset |-> n]]
        stored == Append(t._conversation_cache,
                         [cache_key |-> cache_key, messages_data |-> rows])
    IN  IF hits # {}
        THEN [t EXCEPT !.messages_data = t._conversation_cache[Only(hits)].messages_data]
        ELSE IF t.current_msg_indices = <<>>
        THEN [t EXCEPT !.messages_data = <<>>]
        ELSE [t EXCEPT !.messages_data = rows,
                       !._conversation_cache =
                           IF Len(stored) > ConversationCacheLimit
                           THEN Tail(stored) ELSE stored]

\* refresh_message_table(conv_id) from the table t, under the filters, on
\* the messages msgs of dataset n: the tables it can leave, and how the
\* indices were got.  fresh is what get_filtered_messages(conv_id) can return
refresh_message_table(conv_id, filters, t, fresh, msgs, n) ==
    LET current_filter_hash == filter_hash(filters)
        tracked == [t EXCEPT !._last_filter_hash = current_filter_hash,
                             !._last_conv_id_displayed = conv_id,
                             !._last_blur_state = <<t.blur_all>>]
        use_cached_indices ==
            /\ conv_id = None
            /\ t._cached_all_conversations_indices # <<>>
            /\ t._cached_filter_hash = current_filter_hash
    IN  IF /\ conv_id = t._last_conv_id_displayed
           /\ current_filter_hash = t._last_filter_hash
           /\ t._last_blur_state = <<t.blur_all>>
        THEN { [table |-> t, how |-> "same"] }
        ELSE IF use_cached_indices
        THEN LET indices == t._cached_all_conversations_indices[1]
                 cur == [tracked EXCEPT !.current_msg_indices = indices]
             IN  IF t._last_displayed_indices = <<indices>>
                 THEN { [table |-> cur, how |-> "cached"] }
                 ELSE { [table |-> populate_message_table(conv_id, current_filter_hash,
                                      [cur EXCEPT !._last_displayed_indices = <<indices>>],
                                      msgs, n),
                         how |-> "cached"] }
        ELSE { [table |-> populate_message_table(conv_id, current_filter_hash,
                              [tracked EXCEPT
                                 !.current_msg_indices = indices,
                                 !._cached_all_conversations_indices =
                                     IF conv_id = None THEN <<indices>> ELSE <<>>,
                                 !._cached_filter_hash =
                                     IF conv_id = None THEN current_filter_hash ELSE NoHash,
                                 !._last_displayed_indices = <<indices>>],
                              msgs, n),
                 how |-> "computed"] : indices \in fresh }

\* the table and its caches are t
TableIs(t) ==
    /\ blur_all = t.blur_all
    /\ current_msg_indices = t.current_msg_indices
    /\ _cached_all_conversations_indices = t._cached_all_conversations_indices
    /\ _cached_filter_hash = t._cached_filter_hash
    /\ _last_conv_id_displayed = t._last_conv_id_displayed
    /\ _last_filter_hash = t._last_filter_hash
    /\ _last_blur_state = t._last_blur_state
    /\ _last_displayed_indices = t._last_displayed_indices
    /\ _conversation_cache = t._conversation_cache
    /\ messages_data = t.messages_data

\* a session whose first dataset is loaded: the table as process_zip_data
\* leaves it
LoadedTable ==
    /\ dataset = 1
    /\ \E r \in refresh_message_table(None, ResetFilters,
                  [blur_all |-> FALSE, current_msg_indices |-> <<>>,
                   _cached_all_conversations_indices |-> <<>>,
                   _cached_filter_hash |-> NoHash, _last_conv_id_displayed |-> None,
                   _last_filter_hash |-> NoHash, _last_blur_state |-> <<>>,
                   _last_displayed_indices |-> <<>>, _conversation_cache |-> <<>>,
                   messages_data |-> <<>>],
                  get_filtered_messages(None, ResetFilters), all_messages, 1) :
           TableIs(r.table)

\* an import that leaves every cache of the table as it finds it
caches_kept_over_import(t) == t

\* process_zip_data, "Clear caches for new import"
caches_after_import(t) ==
    [t EXCEPT !._cached_all_conversations_indices = <<>>,
              !._cached_filter_hash = NoHash,
              !._last_conv_id_displayed = None,
              !._last_filter_hash = NoHash,
              !._last_displayed_indices = <<>>]

\* the rows hold the message objects: a change made to a message of the
\* dataset in use shows in every row prepared from that dataset
Retag(rows, msgs) ==
    [r \in DOMAIN rows |->
        IF rows[r].dataset = dataset
        THEN [rows[r] EXCEPT !.msg = msgs[rows[r].msg_index + 1]] ELSE rows[r]]

\* the table after a change of the messages of the dataset in use
TableRetagged ==
    /\ messages_data' = Retag(messages_data, all_messages')
    /\ _conversation_cache' =
           [i \in DOMAIN _conversation_cache |->
               [_conversation_cache[i] EXCEPT
                   !.messages_data = Retag(@, all_messages')]]
    /\ UNCHANGED <<blur_all, current_msg_indices, _cached_all_conversations_indices,
                   _cached_filter_hash, _last_conv_id_displayed, _last_filter_hash,
                   _last_blur_state, _last_displayed_indices, dataset>>

\* the slot of finished_indexing, run by the main thread
process_zip_data ==
    /\ closing.pc = "open"
    /\ signal # <<>>
    /\ LET p == Head(signal)
       IN  IF p.error_message # <<>>
           THEN /\ import_error' = p.error_message
                /\ UNCHANGED <<all_messages, conversations, basenames, viewVars,
                               cacheVars>>
           ELSE IF p.all_messages = <<>>
           THEN /\ import_error' = << <<"No messages or conversations could be loaded.">> >>
                /\ UNCHANGED <<all_messages, conversations, basenames, viewVars,
                               cacheVars>>
           ELSE /\ all_messages' = p.all_messages
                /\ conversations' = p.conversations
                /\ basenames' = p.basenames
                /\ token_index' = NoneIndex
                /\ token_index_built' = FALSE
                /\ media_lookup_cache' = EmptyMap
                /\ active_filters' = ResetFilters
                /\ conv_selector' = None
                /\ dataset' = dataset + 1
                /\ \E r \in refresh_message_table(None, ResetFilters,
                              caches_after_import(Table),
                              get_filtered_messages(None, ResetFilters)',
                              all_messages', dataset + 1) :
                       SetTable(r.table)
                /\ UNCHANGED <<import_error, shown>>
    /\ signal' = Tail(signal)
    /\ progress_dialog' = FALSE
    /\ prior' = NoSession
    /\ UNCHANGED <<disk, threadVars, scanVars, media_zip_path, loader, emitted, parsed,
                   imports, rows_read>>

\* add_tag_to_indices(tag, indices)
add_tag_to_indices ==
    /\ ~progress_dialog
    /\ \E tag \in Tags, indices \in (SUBSET DOMAIN all_messages) \ {{}} :
         all_messages' = [i \in DOMAIN all_messages |->
             IF i \in indices
             THEN [all_messages[i] EXCEPT !.tags = @ \cup {tag}]
             ELSE all_messages[i]]
    /\ TableRetagged
    /\ UNCHANGED <<disk, threadVars, viewVars, scanVars, media_zip_path, conversations, basenames,
                   progress_dialog, import_error, loader, signal, emitted,
                   parsed, prior, imports, rows_read>>

\* remove_tags_from_indices(indices)
remove_tags_from_indices ==
    /\ ~progress_dialog
    /\ \E indices \in (SUBSET DOMAIN all_messages) \ {{}} :
         all_messages' = [i \in DOMAIN all_messages |->
             IF i \in indices THEN [all_messages[i] EXCEPT !.tags = {}]
             ELSE all_messages[i]]
    /\ TableRetagged
    /\ UNCHANGED <<disk, threadVars, viewVars, scanVars, media_zip_path, conversations, basenames,
                   progress_dialog, import_error, loader, signal, emitted,
                   parsed, prior, imports, rows_read>>

Next ==
    \/ import_zip_dialog
    \/ LoaderIndex
    \/ LoaderReadFails
    \/ LoaderParseFails
    \/ LoaderParseFile(SessionRows)
    \/ LoaderEmit
    \/ process_zip_data
    \/ add_tag_to_indices
    \/ remove_tags_from_indices

Spec == Init /\ [][Next]_vars

(***************************************************************************)
(* SpecIngest: one import, its rows drawn from the whole of RowSet.        *)
(***************************************************************************)
first_import == imports = 0 /\ import_zip_dialog

NextIngest ==
    \/ first_import
    \/ LoaderIndex
    \/ LoaderReadFails
    \/ LoaderParseFails
    \/ LoaderParseFile(RowSet)
    \/ LoaderEmit
    \/ process_zip_data

SpecIngest == Init /\ [][NextIngest]_vars

(***************************************************************************)
(* SpecColumns: one import of files whose headers may lack a column.       *)
(***************************************************************************)
NextColumns ==
    \/ first_import
    \/ LoaderIndex
    \/ LoaderReadFails
    \/ LoaderParseFails
    \/ LoaderParseFile(SessionRows)
    \/ LoaderParseLacking(SessionRows)
    \/ LoaderEmit
    \/ process_zip_data

SpecColumns == Init /\ [][NextColumns]_vars

(***************************************************************************)
(* The media token index and the lookups of a media_id.                    *)
(***************************************************************************)
\* the tokens build_media_index files a basename under (build_token_index)
index_tokens(base) ==
    LET base64_like == findall_base64(base, 1)
        tokens_in_base ==
            SeqRange(findall_b(base, 1))
            \cup { t \in SeqRange(base64_like) :
                     ~search_double_sep(t) /\ count(t, "-") < 3 /\ count(t, "_") < 3 }
            \cup SeqRange(findall_hex(base, 1))
    IN  { lower(strip(t)) :
            t \in { u \in tokens_in_base :
                      LET token_clean == lower(strip(u))
                      IN  /\ Len(token_clean) >= MinTokenLen
                          /\ count(token_clean, "-") < 4 /\ count(token_clean, "_") < 4
                          /\ ~match_date(token_clean) } }

\* the loop over entries from entry k on, ti being the token index so far
RECURSIVE index_entries(_, _, _)
index_entries(entries, k, ti) ==
    IF k > Len(entries) THEN ti
    ELSE LET base == basename(entries[k][2])
             loc == <<entries[k][1], entries[k][2]>>
         IN  Only({ index_entries(entries, k + 1,
                      [t \in (DOMAIN ti) \cup toks |->
                          IF t \notin toks THEN ti[t]
                          ELSE IF loc \in SeqRange(Get(ti, t, <<>>)) THEN ti[t]
                          ELSE Append(Get(ti, t, <<>>), loc)]) :
                    toks \in { IF base = <<>> THEN {} ELSE index_tokens(base) } })

\* the token_index of build_media_index(zip_path, build_token_index=True)
token_index_of(zip_path) ==
    LET r == scan_zip_recursive(zip_path)
    IN  IF r.exc # "" THEN [exc |-> build_media_index(zip_path).exc, token_index |-> EmptyMap]
        ELSE [exc |-> "", token_index |-> index_entries(r.entries, 1, EmptyMap)]

\* q with the elements of r that it lacks appended in order
RECURSIVE append_new(_, _)
append_new(q, r) ==
    IF r = <<>> THEN q
    ELSE append_new(IF Head(r) \in SeqRange(q) THEN q ELSE Append(q, Head(r)), Tail(r))

\* cleaned_tokens of find_media_by_media_id
cleaned_tokens(raw) ==
    LET b_tokens == findall_b(raw, 1)
        from_b == [i \in DOMAIN b_tokens |-> lower(strip(b_tokens[i]))]
        base64_like == findall_base64(raw, 1)
        clean64 == [i \in DOMAIN base64_like |-> lower(strip(base64_like[i]))]
        kept64 == SelectIn(clean64,
                    { c \in SeqRange(clean64) :
                        /\ Len(c) >= MinTokenLen /\ ~search_double_sep(c)
                        /\ count(c, "-") < 3 /\ count(c, "_") < 3 /\ ~match_date(c) })
        hex_tokens == findall_hex(raw, 1)
        cleanhex == [i \in DOMAIN hex_tokens |-> lower(strip(hex_tokens[i]))]
    IN  append_new(append_new(from_b, kept64), cleanhex)

\* a loop that goes on after a token matched and gathers the locations of
\* every token
RECURSIVE lookup_tokens_merged(_, _)
lookup_tokens_merged(tokens, ti) ==
    IF tokens = <<>> THEN <<>>
    ELSE append_new(Get(ti, lower(Head(tokens)), <<>>),
                    lookup_tokens_merged(Tail(tokens), ti))

\* the loop over cleaned_tokens with a token index: the locations of the
\* first token the index knows
RECURSIVE lookup_tokens(_, _)
lookup_tokens(tokens, ti) ==
    IF tokens = <<>> THEN <<>>
    ELSE IF lower(Head(tokens)) \in DOMAIN ti /\ ti[lower(Head(tokens))] # <<>>
    THEN append_new(<<>>, ti[lower(Head(tokens))])
    ELSE lookup_tokens(Tail(tokens), ti)

\* the fallback without a token index: for every token the first entry, not
\* yet among the matches, whose basename or internal path contains it
RECURSIVE scan_tokens(_, _, _)
scan_tokens(tokens, bn, matches) ==
    IF tokens = <<>> THEN matches
    ELSE LET hit == { k \in DOMAIN bn :
                        /\ \/ contains(lower(bn[k][1]), lower(Head(tokens)))
                           \/ contains(lower(bn[k][3]), lower(Head(tokens)))
                        /\ <<bn[k][2], bn[k][3]>> \notin SeqRange(matches) }
         IN  scan_tokens(Tail(tokens), bn,
                IF hit = {} THEN matches
                ELSE LET k == CHOOSE j \in hit : \A i \in hit : j <= i
                     IN  Append(matches, <<bn[k][2], bn[k][3]>>))

\* a lookup that stores what it found and does not store a miss
find_media_by_media_id_forgetful(media_id, bn, ti, cache) ==
    IF media_id = <<>> THEN [matches |-> <<>>, cache |-> cache]
    ELSE LET raw == strip(media_id)
         IN  IF raw \in DOMAIN cache THEN [matches |-> cache[raw], cache |-> cache]
             ELSE Only({ [matches |-> matches,
                          cache |-> IF matches = <<>> THEN cache
                                    ELSE (raw :> matches) @@ cache] :
                    matches \in { IF ~ti.is_none
                                  THEN lookup_tokens(cleaned_tokens(raw), ti.map)
                                  ELSE scan_tokens(cleaned_tokens(raw), bn, <<>>) } })

\* find_media_by_media_id: the matches and the cache afterwards
find_media_by_media_id(media_id, bn, ti, cache) ==
    IF media_id = <<>> THEN [matches |-> <<>>, cache |-> cache]
    ELSE LET raw == strip(media_id)
         IN  IF raw \in DOMAIN cache THEN [matches |-> cache[raw], cache |-> cache]
             ELSE Only({ [matches |-> matches, cache |-> (raw :> matches) @@ cache] :
                    matches \in { IF ~ti.is_none
                                  THEN lookup_tokens(cleaned_tokens(raw), ti.map)
                                  ELSE scan_tokens(cleaned_tokens(raw), bn, <<>>) } })

\* the loop of find_reported_file_media over basenames from entry k on
RECURSIVE reported_matches(_, _, _)
reported_matches(media_id_lower, bn, k) ==
    IF k > Len(bn) THEN <<>>
    ELSE (IF \/ contains(lower(bn[k][1]), media_id_lower)
             \/ contains(lower(bn[k][3]), media_id_lower)
          THEN << <<bn[k][2], bn[k][3]>> >> ELSE <<>>)
         \o reported_matches(media_id_lower, bn, k + 1)

\* find_reported_file_media: the matches and the cache afterwards
find_reported_file_media(media_id, bn, cache) ==
    IF media_id = <<>> THEN [matches |-> <<>>, cache |-> cache]
    ELSE LET raw == strip(media_id)
         IN  IF raw \in DOMAIN cache THEN [matches |-> cache[raw], cache |-> cache]
             ELSE LET matches == append_new(<<>>, reported_matches(lower(raw), bn, 1))
                  IN  [matches |-> matches, cache |-> (raw :> matches) @@ cache]

\* re.findall(r'b~[A-Za-z0-9_\-]+', s) from position i on
RECURSIVE findall_b_id(_, _)
findall_b_id(s, i) ==
    IF i > Len(s) THEN <<>>
    ELSE LET n == RunLen(s, i + 2, IdChars)
         IN  IF s[i] = "b" /\ i + 1 <= Len(s) /\ s[i + 1] = "~" /\ n >= 1
             THEN <<SubSeq(s, i, i + 1 + n)>> \o findall_b_id(s, i + 2 + n)
             ELSE findall_b_id(s, i + 1)

\* s.replace(sub, '', 1)
replace_first(s, sub) ==
    LET at == { i \in 0..(Len(s) - Len(sub)) : SubSeq(s, i + 1, i + Len(sub)) = sub }
    IN  IF at = {} \/ sub = <<>> THEN s
        ELSE LET i == CHOOSE j \in at : \A k \in at : j <= k
             IN  SubSeq(s, 1, i) \o SubSeq(s, i + Len(sub) + 1, Len(s))

RECURSIVE remove_each(_, _)
remove_each(s, tokens) ==
    IF tokens = <<>> THEN s ELSE remove_each(replace_first(s, Head(tokens)), Tail(tokens))

\* str.split('~')
RECURSIVE split_tilde(_)
split_tilde(s) ==
    LET idx == {i \in DOMAIN s : s[i] = "~"}
    IN  IF idx = {} THEN <<s>>
        ELSE LET i == CHOOSE k \in idx : \A j \in idx : k <= j
             IN  <<SubSeq(s, 1, i - 1)>> \o split_tilde(SubSeq(s, i + 1, Len(s)))

\* the hex tokens get_media_path takes from the parts left after the b~ tokens
RECURSIVE hex_of_parts(_, _)
hex_of_parts(parts, media_ids) ==
    IF parts = <<>> THEN media_ids
    ELSE LET part == strip(Head(parts))
             found == IF Len(part) = HexTokenLen /\ RunLen(part, 1, HexChars) = HexTokenLen
                      THEN <<lower(part)>>
                      ELSE LET h == findall_hex(part, 1)
                           IN  [i \in DOMAIN h |-> lower(h[i])]
         IN  hex_of_parts(Tail(parts), append_new(media_ids, found))

\* media_ids of get_media_path: the sub-values it resolves, in its order
media_ids_of(raw) ==
    LET b_tokens == findall_b_id(raw, 1)
    IN  hex_of_parts(split_tilde(remove_each(raw, b_tokens)), append_new(<<>>, b_tokens))

\* the loop of get_media_path over media_ids: st holds the cache, the
\* scratch directory, the lookups made and media_paths
RECURSIVE resolve_each(_, _, _)
resolve_each(mids, ti, st) ==
    IF mids = <<>> THEN st
    ELSE LET mid == Head(mids)
             next(r, x) ==
                IF r.matches = <<>>
                THEN [st EXCEPT !.cache = r.cache,
                                !.lookups = Append(@, [mid |-> mid, matches |-> <<>>])]
                ELSE [cache |-> r.cache, dir |-> x.dir,
                      lookups |-> Append(st.lookups, [mid |-> mid, matches |-> r.matches]),
                      media_paths |-> IF x.ok
                                      THEN Append(st.media_paths,
                                             [mid |-> mid, path |-> x.dest,
                                              location |-> r.matches[1],
                                              bytes |-> x.dir[x.dest]])
                                      ELSE st.media_paths]
         IN  Only({ resolve_each(Tail(mids), ti, n) :
                n \in { next(r, IF r.matches = <<>> THEN [ok |-> FALSE]
                                ELSE Only({ y : y \in { extract_file_from_zip(
                                        r.matches[1][1], r.matches[1][2], st.dir) } })) :
                        r \in { find_media_by_media_id(mid, basenames, ti, st.cache) } } })

\* a guard that builds the index at every call
_ensure_token_index_always(built, zip_path) == zip_path # None

\* _ensure_token_index: whether it builds the index
_ensure_token_index(built, zip_path) == ~built /\ zip_path # None

\* get_media_path(media_id, msg_index) for the media_id of message msg_index
get_media_path ==
    /\ ~progress_dialog
    /\ \E msg_index \in DOMAIN all_messages :
         LET msg == all_messages[msg_index]
             media_id == msg.media_id
             call == [op |-> "get_media_path", msg_index |-> msg_index,
                      media_id |-> media_id,
                      is_reported_file |-> Get(msg, "is_flagged_media", FALSE)]
             none == call @@ [media_ids |-> <<>>, lookups |-> <<>>, media_paths |-> <<>>]
         IN  IF strip(media_id) = <<>>
             THEN /\ shown' = none
                  /\ UNCHANGED <<token_index, token_index_built, media_lookup_cache, scratch>>
             ELSE IF call.is_reported_file
             THEN LET raw == strip(media_id)
                      r == find_reported_file_media(raw, basenames, media_lookup_cache)
                      x == extract_file_from_zip(r.matches[1][1], r.matches[1][2], scratch)
                  IN  /\ media_lookup_cache' = r.cache
                      /\ scratch' = IF r.matches = <<>> THEN scratch ELSE x.dir
                      /\ shown' = [none EXCEPT
                            !.media_ids = <<raw>>,
                            !.lookups = << [mid |-> raw, matches |-> r.matches] >>,
                            !.media_paths =
                                IF r.matches # <<>> /\ x.ok
                                THEN << [mid |-> raw, path |-> x.dest,
                                         location |-> r.matches[1],
                                         bytes |-> x.dir[x.dest]] >>
                                ELSE <<>>]
                      /\ UNCHANGED <<token_index, token_index_built>>
             ELSE LET media_ids == media_ids_of(media_id)
                      \* _ensure_token_index
                      build == _ensure_token_index(token_index_built, media_zip_path)
                      b == token_index_of(media_zip_path)
                  IN
                  \E ti \in {IF build THEN DictIndex(b.token_index) ELSE token_index} :
                  \E st \in {resolve_each(media_ids, ti,
                               [cache |-> media_lookup_cache, dir |-> scratch,
                                lookups |-> <<>>, media_paths |-> <<>>])} :
                      IF media_ids = <<>>
                      THEN /\ shown' = none
                           /\ UNCHANGED <<token_index, token_index_built,
                                          media_lookup_cache, scratch>>
                      \* build_media_index raises: the call ends with the exception
                      ELSE IF build /\ b.exc # ""
                      THEN /\ shown' = [none EXCEPT !.op = b.exc]
                           /\ UNCHANGED <<token_index, token_index_built,
                                          media_lookup_cache, scratch>>
                      ELSE /\ token_index' = ti
                           /\ token_index_built' = (token_index_built \/ build)
                           /\ media_lookup_cache' = st.cache
                           /\ scratch' = st.dir
                           /\ shown' = [none EXCEPT !.media_ids = media_ids,
                                                    !.lookups = st.lookups,
                                                    !.media_paths = st.media_paths]
    /\ UNCHANGED <<disk, cacheVars, threadVars, scan, last, media_zip_path, all_messages, conversations,
                   basenames, progress_dialog, import_error, loader, signal,
                   emitted, parsed, prior, imports, rows_read, active_filters,
                   conv_selector>>

(***************************************************************************)
(* SpecMedia: media resolution in a session loaded from one archive, whose *)
(* media files and rows are drawn from MediaFiles and MediaRows.           *)
(***************************************************************************)
\* c written n times
Rep(c, n) == [i \in 1..n |-> c]

\* a b~ token of 20 characters, one of 24 with four hyphens, a hex token
TokPlain == <<"E", "i">> \o Rep("a", 18)
TokHyphens == <<"e", "-", "a", "-", "b", "-", "c", "-", "d">> \o Rep("x", 15)
TokHex == <<"a", "1", "B", "2">> \o Rep("0", 28)
Jpg == <<".", "j", "p", "g">>

MediaFilesSeq ==
    << <<"m", "/", "b", "~">> \o TokPlain \o Jpg,
       <<"m", "/", "b", "~">> \o TokHyphens \o Jpg,
       <<"m", "/">> \o TokHex \o Jpg,
       lower(TokHex) \o <<"/", "p", "i", "c">> \o Jpg,
       <<"r", "/", "x", "_", "r", "7", "-", "1">> \o Jpg >>

MediaIds ==
    << <<"b", "~">> \o TokPlain,
       <<"b", "~">> \o TokHyphens,
       lower(TokHex),
       lower(TokHex) \o <<"~", "b", "~">> \o TokPlain,
       <<"b", "~">> \o TokPlain \o <<"~">> \o TokHex \o <<"~", "b", "~">> \o TokPlain,
       <<"R", "7", "-", "1">>,
       <<"b", "~">> \o TokPlain \o <<"-">> \o lower(TokHex) >>

FlaggedIds == << lower(TokHex), <<"R", "7", "-", "1">> >>

\* rows of the conversations.csv: normal rows, then flagged-media rows
MediaRows ==
    [i \in DOMAIN MediaIds |->
        [conversation_id |-> "c1", content_type |-> "TEXT", text |-> "hi",
         sender_username |-> "alice", timestamp |-> 1, media_id |-> MediaIds[i]]]
    \o
    [i \in DOMAIN FlaggedIds |->
        [conversation_id |-> "", content_type |-> "", text |-> "",
         sender_username |-> "alice", timestamp |-> 1, media_id |-> FlaggedIds[i]]]

MaxMediaFiles == 2
MaxMediaRows == 2

\* the media files of an archive: some of MediaFilesSeq, in its order
MediaArchives ==
    { SelectIn(MediaFilesSeq, S) :
        S \in { T \in SUBSET SeqRange(MediaFilesSeq) : Cardinality(T) <= MaxMediaFiles } }

\* the rows of its conversations.csv: some of MediaRows, in its order
MediaCsvs ==
    { SelectIn(MediaRows, S) :
        S \in { T \in SUBSET SeqRange(MediaRows) :
                    Cardinality(T) \in 1..MaxMediaRows } }

MediaRoot == "M.zip"

InitMedia ==
    /\ \E files \in MediaArchives :
         disk = (MediaRoot :> ZipOnDisk(
                    << File(<<"conversations.csv">>) >>
                    \o [i \in DOMAIN files |-> File(files[i])]))
    /\ scan = [state |-> "none", exc |-> ""] @@ NoEntries
    /\ scratch = EmptyMap
    /\ last = [op |-> "none", loc |-> 0, ok |-> FALSE, bytes |-> EmptyFile]
    \* the session after import_zip_dialog and process_zip_data
    /\ media_zip_path = MediaRoot
    /\ basenames = build_media_index(MediaRoot).basenames
    /\ \E rows \in MediaCsvs :
         LET st == process_rows(rows, 1, <<"conversations.csv">>, 0,
                     [all_messages |-> <<>>, conversations |-> EmptyMap,
                      seen_message_signatures |-> {}])
         IN  /\ all_messages = st.all_messages
             /\ conversations = st.conversations
    /\ progress_dialog = FALSE
    /\ import_error = <<>>
    /\ loader = [LoaderIdle EXCEPT !.pc = "done"]
    /\ signal = <<>>
    /\ emitted = 1
    /\ parsed = <<>>
    /\ prior = NoSession
    /\ imports = 1
    /\ rows_read = 0
    /\ token_index = NoneIndex
    /\ token_index_built = FALSE
    /\ media_lookup_cache = EmptyMap
    /\ shown = NothingShown
    /\ active_filters = ResetFilters
    /\ conv_selector = None
    /\ LoadedTable
    /\ InitThreads

NextMedia == get_media_path

SpecMedia == InitMedia /\ [][NextMedia]_vars

(***************************************************************************)
(* SpecResolver: imports and media resolution in one session.  The disk    *)
(* holds an archive with a conversations.csv and two media files and an    *)
(* archive without conversations.csv; the rows carry a b~ token and a hex  *)
(* token, the latter also on a flagged-media row.                          *)
(***************************************************************************)
ResolverDisk ==
    MediaRoot :> ZipOnDisk(<<
        File(<<"conversations.csv">>),
        File(<<"m", "/", "b", "~">> \o TokPlain \o Jpg),
        File(lower(TokHex) \o <<"/", "p", "i", "c">> \o Jpg) >>)
    @@ "B.zip" :> ZipOnDisk(<< File(<<"m", "/", "x.jpg">>) >>)

ResolverRows ==
    { r \in SeqRange(MediaRows) :
        r.media_id \in { <<"b", "~">> \o TokPlain, lower(TokHex) } }

InitResolver ==
    /\ disk = ResolverDisk
    /\ scan = [state |-> "none", exc |-> ""] @@ NoEntries
    /\ scratch = EmptyMap
    /\ last = [op |-> "none", loc |-> 0, ok |-> FALSE, bytes |-> EmptyFile]
    /\ InitSession

NextResolver ==
    \/ import_zip_dialog
    \/ LoaderIndex
    \/ LoaderParseFile(ResolverRows)
    \/ LoaderEmit
    \/ process_zip_data
    \/ get_media_path

SpecResolver == InitResolver /\ [][NextResolver]_vars

(***************************************************************************)
(* The message table: the filter dialog, the conversation selector and     *)
(* get_filtered_messages.  A timestamp is a number of ticks, TicksPerDay   *)
(* of them in a day; the calls pass no query_params.                       *)
(***************************************************************************)
TicksPerDay == 2

\* pd.to_datetime(date).tz_localize('UTC'): the first tick of the day
start_of_day(day) == day * TicksPerDay

\* an end of range that stops where the end day starts
end_of_range_at_start(to_day) == start_of_day(to_day)

\* pd.to_datetime(dt_to).tz_localize('UTC') + pd.Timedelta(days=1)
end_of_range(to_day) == start_of_day(to_day) + TicksPerDay

\* FilterDialog.get_filters for the widgets as the user left them
get_filters(cleared, from_day, to_day, sender, type, content, saved_status) ==
    (IF cleared THEN [from_date |-> NoDate, to_date |-> NoDate]
     ELSE [from_date |-> Date(start_of_day(from_day)),
           to_date |-> Date(end_of_range(to_day))])
    @@ (IF sender # "All Senders" THEN [sender_username |-> sender] ELSE EmptyMap)
    @@ (IF type # "All Types" THEN [message_type |-> type] ELSE EmptyMap)
    @@ (IF content # "All Content" THEN [content_type |-> content] ELSE EmptyMap)
    @@ [is_saved_display |-> saved_status,
        is_saved |-> IF saved_status = "Only Saved" THEN "True"
                     ELSE IF saved_status = "Only Unsaved" THEN "False" ELSE None]

tableVars == <<disk, scanVars, sessionVars, token_index, token_index_built,
               media_lookup_cache, threadVars>>

\* row lists prepared in one behaviour, after which the user leaves the
\* table alone
MaxPreparedLists == 2

\* refresh_message_table_with_status(conv_id), called by a handler that has
\* left the table as t
refresh_message_table_with_status(conv_id, filters, by, t) ==
    \E r \in refresh_message_table(conv_id, filters, t,
                  get_filtered_messages(conv_id, filters), all_messages, dataset) :
        /\ SetTable(r.table)
        /\ shown' = IF r.how = "same" THEN shown
                    ELSE [op |-> IF r.how = "cached" THEN "cached_indices"
                                 ELSE "get_filtered_messages",
                          by |-> by, conv_id |-> conv_id, filters |-> filters,
                          result |-> r.table.current_msg_indices]

\* "Clear cache when filters change", of do_filter_dialog and clear_all_filters
filters_changed(t) ==
    [t EXCEPT !._cached_all_conversations_indices = <<>>,
              !._cached_filter_hash = NoHash]

\* the days the date edits of the dialog are set to
Days == {1, 2}

\* do_filter_dialog, the dialog accepted
FilterDialog(Cleared, Statuses) ==
    /\ ~progress_dialog
    /\ Len(_conversation_cache) < MaxPreparedLists
    /\ \E cleared \in Cleared, from_day, to_day \in Days,
          sender \in {"All Senders"} \cup unique_values("sender_username"),
          type \in {"All Types"} \cup unique_values("message_type"),
          content \in {"All Content"} \cup unique_values("content_type"),
          saved_status \in Statuses :
         /\ cleared => from_day = 1 /\ to_day = 1
         /\ active_filters' = get_filters(cleared, from_day, to_day, sender, type,
                                          content, saved_status)
         /\ refresh_message_table_with_status(conv_selector, active_filters',
                [handler |-> "do_filter_dialog", cleared |-> cleared,
                 from_day |-> from_day, to_day |-> to_day, sender |-> sender,
                 type |-> type, content |-> content, saved_status |-> saved_status],
                filters_changed(Table))
    /\ UNCHANGED <<tableVars, conv_selector, dataset>>

do_filter_dialog ==
    FilterDialog(BOOLEAN, {"All Messages", "Only Saved", "Only Unsaved"})

\* do_filter_dialog, the dialog accepted with no date range and no saved
\* status chosen
do_filter_dialog_plain == FilterDialog({TRUE}, {"All Messages"})

\* clear_all_filters
clear_all_filters ==
    /\ ~progress_dialog
    /\ Len(_conversation_cache) < MaxPreparedLists
    /\ active_filters' = ResetFilters
    /\ refresh_message_table_with_status(conv_selector, active_filters',
           [handler |-> "clear_all_filters"], filters_changed(Table))
    /\ UNCHANGED <<tableVars, conv_selector, dataset>>

\* on_conv_selected_combobox: an item of the selector is chosen
on_conv_selected_combobox ==
    /\ ~progress_dialog
    /\ Len(_conversation_cache) < MaxPreparedLists
    /\ \E conv_id \in {None} \cup DOMAIN conversations :
         /\ conv_selector' = conv_id
         /\ refresh_message_table_with_status(conv_id, active_filters,
                [handler |-> "on_conv_selected_combobox"], Table)
    /\ UNCHANGED <<tableVars, active_filters, dataset>>

\* toggle_blur, the later of the two definitions of the class: the flag is
\* flipped, what the last refresh showed is forgotten, and the table of the
\* selected conversation is refreshed
toggle_blur ==
    /\ ~progress_dialog
    /\ Len(_conversation_cache) < MaxPreparedLists
    /\ refresh_message_table_with_status(conv_selector, active_filters,
           [handler |-> "toggle_blur", blur_all |-> ~blur_all],
           [Table EXCEPT !.blur_all = ~blur_all,
                         !._last_conv_id_displayed = None,
                         !._last_filter_hash = NoHash,
                         !._last_displayed_indices = <<>>,
                         !._last_blur_state = <<>>])
    /\ UNCHANGED <<tableVars, active_filters, conv_selector, dataset>>


(***************************************************************************)
(* SpecFilter: the message table of a session loaded from one archive,     *)
(* whose rows are some of FilterRows.                                      *)
(***************************************************************************)
FilterRow(c, s, t, sv) ==
    [conversation_id |-> c, content_type |-> "TEXT", text |-> "hi",
     sender_username |-> s, timestamp |-> t, media_id |-> <<>>, saved_by |-> sv]

FilterRows ==
    << FilterRow("c1", "alice", 5, "u1"),
       FilterRow("c1", "bob", 3, ""),
       FilterRow("c1", "alice", 3, ""),
       FilterRow("c2", "bob", 6, ""),
       FilterRow("c1", "bob", NaT, "") >>

MaxFilterRows == 3

FilterCsvs ==
    { SelectIn(FilterRows, S) :
        S \in { T \in SUBSET SeqRange(FilterRows) :
                    Cardinality(T) \in 1..MaxFilterRows } }

InitFilter ==
    /\ disk = (MediaRoot :> ZipOnDisk(<< File(<<"conversations.csv">>) >>))
    /\ scan = [state |-> "none", exc |-> ""] @@ NoEntries
    /\ scratch = EmptyMap
    /\ last = [op |-> "none", loc |-> 0, ok |-> FALSE, bytes |-> EmptyFile]
    /\ media_zip_path = MediaRoot
    /\ basenames = build_media_index(MediaRoot).basenames
    /\ \E rows \in FilterCsvs :
         LET st == process_rows(rows, 1, <<"conversations.csv">>, 0,
                     [all_messages |-> <<>>, conversations |-> EmptyMap,
                      seen_message_signatures |-> {}])
         IN  /\ all_messages = st.all_messages
             /\ conversations = st.conversations
    /\ progress_dialog = FALSE
    /\ import_error = <<>>
    /\ loader = [LoaderIdle EXCEPT !.pc = "done"]
    /\ signal = <<>>
    /\ emitted = 1
    /\ parsed = <<>>
    /\ prior = NoSession
    /\ imports = 1
    /\ rows_read = 0
    /\ token_index = NoneIndex
    /\ token_index_built = FALSE
    /\ media_lookup_cache = EmptyMap
    /\ shown = NothingShown
    /\ active_filters = ResetFilters
    /\ conv_selector = None
    /\ LoadedTable
    /\ InitThreads

NextFilter ==
    \/ do_filter_dialog
    \/ clear_all_filters
    \/ on_conv_selected_combobox

SpecFilter == InitFilter /\ [][NextFilter]_vars

(***************************************************************************)
(* parse_reactions.  A reactions string is a sequence of atoms: a digit, a *)
(* letter, a separator, or a run of digits of a user id; an emoji of the   *)
(* output is the atom of its code point, a reaction name one atom.         *)
(***************************************************************************)
\* str.isdigit: not empty, digits only
isdigit(s) ==
    /\ s # <<>>
    /\ \A i \in DOMAIN s : s[i] \in Digit \cup {"00000000", "0000", "000000000000"}

\* s.split(c) for a separator of one character
RECURSIVE split_on(_, _)
split_on(s, c) ==
    IF c \notin SeqRange(s) THEN <<s>>
    ELSE LET i == CHOOSE j \in DOMAIN s : s[j] = c /\ \A k \in 1..(j - 1) : s[k] # c
         IN  <<SubSeq(s, 1, i - 1)>> \o split_on(SubSeq(s, i + 1, Len(s)), c)

\* sep.join(parts)
RECURSIVE join(_, _)
join(parts, sep) ==
    IF parts = <<>> THEN <<>>
    ELSE IF Len(parts) = 1 THEN parts[1]
    ELSE parts[1] \o sep \o join(Tail(parts), sep)

\* s.split(' - ', 1) of a string that holds ' - '
split_legacy(s) ==
    LET sep == <<" ", "-", " ">>
        i == CHOOSE j \in DOMAIN s :
                /\ j + 2 <= Len(s) /\ SubSeq(s, j, j + 2) = sep
                /\ \A k \in 1..(j - 1) : SubSeq(s, k, k + 2) # sep
    IN  << SubSeq(s, 1, i - 1), SubSeq(s, i + 3, Len(s)) >>

reaction_map ==
    (<<"0">> :> "U+2753") @@
    (<<"1">> :> "U+2764") @@
    (<<"2">> :> "U+1F602") @@
    (<<"3">> :> "U+1F525") @@
    (<<"4">> :> "U+1F44D") @@
    (<<"5">> :> "U+1F44E") @@
    (<<"6">> :> "U+1F622") @@
    (<<"7">> :> "U+1F62E") @@
    (<<"8">> :> "U+2753") @@
    (<<"9">> :> "U+1F618") @@
    (<<"1", "0">> :> "U+1F62D") @@
    (<<"1", "1">> :> "U+1F480") @@
    (<<"1", "2">> :> "U+2757") @@
    (<<"1", "3">> :> "U+1F620") @@
    (<<"1", "4">> :> "U+1FAE1")

reaction_names ==
    (<<"0">> :> "Unset") @@
    (<<"1">> :> "Love") @@
    (<<"2">> :> "Laugh Cry") @@
    (<<"3">> :> "Fire") @@
    (<<"4">> :> "Thumbs Up") @@
    (<<"5">> :> "Thumbs Down") @@
    (<<"6">> :> "Sad Cry") @@
    (<<"7">> :> "Wow") @@
    (<<"8">> :> "Question Mark") @@
    (<<"9">> :> "Kiss") @@
    (<<"1", "0">> :> "Sobbing") @@
    (<<"1", "1">> :> "Skull") @@
    (<<"1", "2">> :> "Exclamation Mark") @@
    (<<"1", "3">> :> "Angry") @@
    (<<"1", "4">> :> "Salute")

\* a rendering that takes the emoji of every code from the table
reaction_text_by_table(reaction_value) ==
    << Get(reaction_map, reaction_value, "U+2753"), " ", "(",
       Get(reaction_names, reaction_value, "Unknown"), ")" >>

\* what a digit reaction value renders as
reaction_text(reaction_value) ==
    IF reaction_value = <<"0">> THEN << "Unset/Unspecified" >>
    ELSE << Get(reaction_map, reaction_value, "U+2753"), " ", "(",
            Get(reaction_names, reaction_value, "Unknown"), ")" >>

\* one part of the string taken apart: kept as it is, or a user id and a
\* reaction value (<<>> for a user id that is None)
take_apart(reaction_part) ==
    LET parts == split_on(reaction_part, "-")
        legacy_parts == split_legacy(reaction_part)
        as_is == [as_is |-> TRUE, user_id |-> <<>>, reaction_value |-> <<>>]
    IN  IF "-" \in SeqRange(reaction_part)
        THEN IF isdigit(parts[Len(parts)])
             THEN [as_is |-> FALSE,
                   user_id |-> join(SubSeq(parts, 1, Len(parts) - 1), <<"-">>),
                   reaction_value |-> parts[Len(parts)]]
             ELSE IF contains(reaction_part, <<" ", "-", " ">>)
             THEN [as_is |-> FALSE, user_id |-> strip(legacy_parts[1]),
                   reaction_value |-> strip(legacy_parts[2])]
             ELSE as_is
        ELSE IF isdigit(reaction_part)
        THEN [as_is |-> FALSE, user_id |-> <<>>, reaction_value |-> reaction_part]
        ELSE as_is

\* what one part of the string renders as
render_part(reaction_part, user_id_map) ==
    LET t == take_apart(reaction_part)
        display_user == IF t.user_id # <<>> /\ t.user_id \in DOMAIN user_id_map
                        THEN user_id_map[t.user_id] ELSE t.user_id
        with_user(text) == IF display_user # <<>>
                           THEN display_user \o <<" ", "-", " ">> \o text ELSE text
    IN  IF t.as_is THEN reaction_part
        ELSE IF t.reaction_value # <<>>
        THEN IF isdigit(t.reaction_value) THEN with_user(reaction_text(t.reaction_value))
             ELSE with_user(t.reaction_value)
        ELSE IF display_user # <<>> THEN display_user ELSE reaction_part

\* the parts of a list that are not empty, each rendered
RECURSIVE render_parts(_, _)
render_parts(reaction_parts, user_id_map) ==
    IF reaction_parts = <<>> THEN <<>>
    ELSE (IF strip(Head(reaction_parts)) = <<>> THEN <<>>
          ELSE << render_part(strip(Head(reaction_parts)), user_id_map) >>)
         \o render_parts(Tail(reaction_parts), user_id_map)

\* parse_reactions(reactions_str, user_id_map); a user_id_map of None is the
\* empty dict, which reads the same
parse_reactions(reactions_str, user_id_map) ==
    IF strip(reactions_str) = <<>> THEN <<>>
    ELSE LET str == strip(reactions_str)
             reaction_parts == IF ";" \in SeqRange(str) THEN split_on(str, ";")
                               ELSE split_on(str, ",")
         IN  join(render_parts(reaction_parts, user_id_map), <<",", " ">>)

(***************************************************************************)
(* SpecReactions: parse_reactions on a reactions string of tokens, each a  *)
(* user id, a code, or both in the new or the legacy form.                 *)
(***************************************************************************)
ZeroId == <<"00000000", "-", "0000", "-", "0000", "-", "0000", "-", "000000000000">>
UserU1 == <<"u", "1">>

\* the codes of the table, and one past it
TableCodes == DOMAIN reaction_map
ReactionCodes == TableCodes \cup { <<"1", "5">> }

ReactionToken(u, c, l) == [user |-> u, code |-> c, legacy |-> l]

\* every form of one token
AllTokens ==
    { ReactionToken(u, c, l) : u \in {ZeroId, UserU1}, c \in ReactionCodes, l \in BOOLEAN }
    \cup { ReactionToken(<<>>, c, FALSE) : c \in ReactionCodes }
    \cup { ReactionToken(u, <<>>, FALSE) : u \in {ZeroId, UserU1} }

\* the tokens of the strings of several
FewTokens ==
    { t \in AllTokens : t.code \in { <<>>, <<"0">>, <<"3">> } }

\* the text of a token
token_text(t) ==
    IF t.legacy THEN t.user \o <<" ", "-", " ">> \o t.code
    ELSE IF t.user = <<>> THEN t.code
    ELSE IF t.code = <<>> THEN t.user
    ELSE t.user \o <<"-">> \o t.code

MaxReactions == 2

\* a string of tokens and the separator that joins them
ReactionInputs ==
    { [tokens |-> <<t>>, sep |-> <<";">>] : t \in AllTokens }
    \cup { [tokens |-> q, sep |-> sep] :
            q \in UNION { [1..k -> FewTokens] : k \in 2..MaxReactions },
            sep \in { <<";">>, <<",", " ">> } }

UserIdMaps == { EmptyMap, (UserU1 :> <<"alice">>) @@ (ZeroId :> <<"zed">>) }

InitReactions ==
    /\ disk = SessionDisk
    /\ scan = [state |-> "none", exc |-> ""] @@ NoEntries
    /\ scratch = EmptyMap
    /\ last = [op |-> "none", loc |-> 0, ok |-> FALSE, bytes |-> EmptyFile]
    \* the session of SnapParserMain.__init__
    /\ media_zip_path = None
    /\ all_messages = <<>>
    /\ conversations = EmptyMap
    /\ basenames = <<>>
    /\ progress_dialog = FALSE
    /\ import_error = <<>>
    /\ loader = LoaderIdle
    /\ signal = <<>>
    /\ emitted = 0
    /\ parsed = <<>>
    /\ prior = NoSession
    /\ imports = 0
    /\ rows_read = 0
    /\ token_index = NoneIndex
    /\ token_index_built = FALSE
    /\ media_lookup_cache = EmptyMap
    /\ active_filters = InitFilters
    /\ conv_selector = None
    /\ InitTable
    /\ InitThreads
    /\ \E input \in ReactionInputs, user_id_map \in UserIdMaps :
         shown = [op |-> "reactions", tokens |-> input.tokens,
                  reactions_str |-> join([n \in DOMAIN input.tokens |->
                                            token_text(input.tokens[n])], input.sep),
                  user_id_map |-> user_id_map]

\* the reactions of a message are rendered
show_reactions ==
    /\ shown.op = "reactions"
    /\ shown' = [op |-> "parse_reactions", tokens |-> shown.tokens,
                 reactions_str |-> shown.reactions_str,
                 user_id_map |-> shown.user_id_map,
                 result |-> parse_reactions(shown.reactions_str, shown.user_id_map)]
    /\ UNCHANGED <<tableVars, cacheVars, active_filters, conv_selector>>

NextReactions == show_reactions

SpecReactions == InitReactions /\ [][NextReactions]_vars

(***************************************************************************)
(* The archive tree as the claims speak of it: an entry is named by its    *)
(* index path, the positions to follow from the root archive inwards.      *)
(***************************************************************************)
\* the last atom of a name, "" for the empty name
LastAtom(name) == IF name = <<>> THEN "" ELSE name[Len(name)]

\* an entry that is a nested archive: named *.zip in any case, a valid ZIP
IsArchiveEntry(e) == e.zip /\ LastAtom(e.name) \in {"a.zip", "A.ZIP", "in.zip"}

\* an entry named *.zip whose bytes are no valid ZIP
IsBadArchiveEntry(e) == ~e.zip /\ LastAtom(e.name) \in {"a.zip", "A.ZIP", "in.zip"}

\* the basename is conversations.csv in any case
IsConversationsCsv(name) ==
    LastAtom(name) \in {"conversations.csv", "Conversations.CSV"}

\* the index paths of the entries of archive a and of every archive nested
\* in it, in the order of a depth-first walk
RECURSIVE PathsInOrder(_, _)
PathsInOrder(a, i) ==
    IF i > Len(a) THEN <<>>
    ELSE LET below == IF IsArchiveEntry(a[i]) THEN PathsInOrder(a[i].sub, 1) ELSE <<>>
         IN  << <<i>> >> \o [j \in DOMAIN below |-> <<i>> \o below[j]]
                         \o PathsInOrder(a, i + 1)

RootPaths == PathsInOrder(disk[Root].sub, 1)
RootPathSet == { RootPaths[k] : k \in DOMAIN RootPaths }

RECURSIVE EntryAt(_, _)
EntryAt(a, p) == IF Len(p) = 1 THEN a[p[1]] ELSE EntryAt(a[p[1]].sub, Tail(p))

\* the internal path of the entry at p: the names on the way joined by "!"
RECURSIVE InternalAt(_, _)
InternalAt(a, p) ==
    IF Len(p) = 1 THEN a[p[1]].name
    ELSE a[p[1]].name \o <<"!">> \o InternalAt(a[p[1]].sub, Tail(p))

\* the bytes stored for the entry at p
RECURSIVE BytesAt(_, _)
BytesAt(cur, p) == IF p = <<>> THEN cur ELSE BytesAt(Blob(cur, p[1]), Tail(p))

LocationAt(p) == <<Root, InternalAt(disk[Root].sub, p)>>
ScanDone == scan.state = "done" /\ disk[Root].zip

\* C8: for a readable root the scan returns every entry of every archive
\* level exactly once as a location, and conv_files is exactly the set of
\* the locations whose entry has the basename conversations.csv, compared
\* case-insensitively, at whatever depth.
C8_ScanComplete ==
    ScanDone =>
        /\ scan.exc = ""
        /\ SeqRange(scan.entries) = { LocationAt(p) : p \in RootPathSet }
        /\ Len(scan.entries) = Len(RootPaths)
        /\ SeqRange(scan.conv_files) =
             { LocationAt(p) : p \in { q \in RootPathSet :
                                         IsConversationsCsv(EntryAt(disk[Root].sub, q).name) } }
        /\ Len(scan.conv_files) = Cardinality(SeqRange(scan.conv_files))

\* a conversations.csv written in another case, two archives deep, was found
C8_Witness ==
    /\ ScanDone
    /\ \E k \in DOMAIN scan.conv_files :
         LET internal == scan.conv_files[k][2]
         IN  /\ Cardinality({i \in DOMAIN internal : internal[i] = "!"}) >= 2
             /\ internal[Len(internal)] = "Conversations.CSV"

\* C9: when some nested *.zip entry is no valid archive, the scan still
\* ends without an exception, records every entry of every level (those
\* before and after the bad one included), and lists every conversations.csv.
C9_BadNestedSkipped ==
    (ScanDone /\ \E p \in RootPathSet : IsBadArchiveEntry(EntryAt(disk[Root].sub, p))) =>
        /\ scan.exc = ""
        /\ \A q \in RootPathSet :
             /\ LocationAt(q) \in SeqRange(scan.entries)
             /\ IsConversationsCsv(EntryAt(disk[Root].sub, q).name)
                  => LocationAt(q) \in SeqRange(scan.conv_files)

\* inside a nested archive a bad *.zip comes first and a conversations.csv
\* after it, and the conversations.csv was listed
C9_Witness ==
    /\ ScanDone
    /\ \E p, q \in RootPathSet :
         /\ Len(p) = 2 /\ Len(q) = 2 /\ p[1] = q[1] /\ p[2] < q[2]
         /\ IsBadArchiveEntry(EntryAt(disk[Root].sub, p))
         /\ IsConversationsCsv(EntryAt(disk[Root].sub, q).name)
         /\ LocationAt(q) \in SeqRange(scan.conv_files)

\* the names on the way to the entry at p hold no "!" and it is no directory
PlainFileAt(p) ==
    /\ LastAtom(EntryAt(disk[Root].sub, p).name) # "/"
    /\ \A n \in 1..Len(p) : "!" \notin SeqRange(EntryAt(disk[Root].sub, SubSeq(p, 1, n)).name)

\* C10: extracting a location the scan returned into the scratch directory
\* yields a file holding exactly the bytes of that entry, whatever was
\* extracted before (stated for file entries whose names hold no "!").
C10_ExtractReplaysBytes ==
    (last.op = "extract" /\ PlainFileAt(RootPaths[last.loc])) =>
        /\ last.ok
        /\ last.bytes = BytesAt(disk[Root], RootPaths[last.loc])

(***************************************************************************)
(* The rows the running loader has read, as the claims speak of them:      *)
(* <<f, i>> is data row i of the f-th conversations.csv parsed so far.     *)
(***************************************************************************)
Occurrences ==
    { o \in (DOMAIN parsed) \X (1..MaxRows) :
        parsed[o[1]].ok /\ o[2] <= Len(parsed[o[1]].rows) }

RowAt(o) == parsed[o[1]].rows[o[2]]
SourceOf(o) == parsed[o[1]].source
\* the 1-based line of the file the row stands on: skip lines, the header,
\* then the rows
LineOf(o) == parsed[o[1]].skip + 1 + o[2]

RowFields == {"content_type", "text", "sender_username", "timestamp", "media_id"}

\* message m is a copy of the row at o: the same source, line and fields,
\* the conversation being the row's own or, for a row without one, the sentinel
Represents(m, o) ==
    /\ m.source = SourceOf(o)
    /\ m.source_line = LineOf(o)
    /\ \A k \in RowFields : m[k] = RowAt(o)[k]
    /\ \/ m.conversation_id = RowAt(o).conversation_id
       \/ RowAt(o).conversation_id = "" /\ m.conversation_id = "__REPORTED_FILES__"

CopiesOf(o) ==
    { j \in DOMAIN loader.all_messages : Represents(loader.all_messages[j], o) }

Kept(o) == CopiesOf(o) # {}

HasTriple(r) == r.sender_username # "" /\ r.timestamp # 0 /\ r.media_id # <<>>
BothEmpty(r) == r.conversation_id = "" /\ r.content_type = ""

\* C1: after any import and any sequence of tag additions and removals, no
\* two messages of the message list have the same fields with identical
\* values in every field other than tags (source and source_line included).
C1_NoTwoMessagesAlike ==
    \A i, j \in DOMAIN all_messages :
        i # j => \/ DOMAIN all_messages[i] # DOMAIN all_messages[j]
                 \/ \E k \in DOMAIN all_messages[i] \ {"tags"} :
                        all_messages[i][k] # all_messages[j][k]

\* two messages of the same source and line that differ in their text only
\* are loaded, and one of them has been tagged
C1_Witness ==
    \E i, j \in DOMAIN all_messages :
        /\ i # j
        /\ all_messages[i].source = all_messages[j].source
        /\ all_messages[i].source_line = all_messages[j].source_line
        /\ all_messages[i].conversation_id = all_messages[j].conversation_id
        /\ all_messages[i].text # all_messages[j].text
        /\ all_messages[i].tags # {} /\ all_messages[j].tags = {}

\* C2: a parsed row is kept if and only if content_type and conversation_id
\* are both present, or sender, timestamp and media_id are all present.
C2_KeptIffAccepted ==
    \A o \in Occurrences :
        Kept(o) <=> \/ RowAt(o).content_type # "" /\ RowAt(o).conversation_id # ""
                    \/ HasTriple(RowAt(o))

\* C3: a row with conversation_id and content_type both empty and sender,
\* timestamp and media_id all present is kept in the sentinel conversation
\* "__REPORTED_FILES__" titled "Reported Files", marked is_flagged_media and
\* without a tag; a row with both empty that lacks one of the three is dropped.
C3_FlaggedReclassified ==
    \A o \in Occurrences :
        BothEmpty(RowAt(o)) =>
            IF HasTriple(RowAt(o))
            THEN \E j \in CopiesOf(o) :
                   LET m == loader.all_messages[j]
                       members == Get(loader.conversations, "__REPORTED_FILES__", <<>>)
                   IN  /\ m.conversation_id = "__REPORTED_FILES__"
                       /\ Get(m, "conversation_title", "") = "Reported Files"
                       /\ Get(m, "is_flagged_media", FALSE)
                       /\ m.tags = {}
                       /\ \E n \in DOMAIN members : members[n] = j - 1
            ELSE ~Kept(o)

\* one file held a flagged-media row, which was kept, and a row with both
\* empty that lacks one of the three, which was not
C3_Witness ==
    \E o, q \in Occurrences :
        /\ BothEmpty(RowAt(o)) /\ HasTriple(RowAt(o)) /\ Kept(o)
        /\ BothEmpty(RowAt(q)) /\ ~HasTriple(RowAt(q)) /\ ~Kept(q)

\* a row the loader accepts: it passes the acceptance filter and has a
\* conversation, its own or the sentinel
Accepted(o) ==
    \/ RowAt(o).conversation_id # "" /\ (RowAt(o).content_type # "" \/ HasTriple(RowAt(o)))
    \/ BothEmpty(RowAt(o)) /\ HasTriple(RowAt(o))

Identical(o, q) ==
    RowAt(o) = RowAt(q) /\ SourceOf(o) = SourceOf(q) /\ LineOf(o) = LineOf(q)

PerFileErrors(e) ==
    /\ e # <<>>
    /\ \A n \in DOMAIN e : e[n][1] \in {"Failed to read", "Failed to parse CSV"}

\* C5: when one conversations.csv cannot be read or parsed and another one
\* yields messages, the import delivers those messages into the session:
\* the step that handles such a completion loads them.
C5_GoodFilesDelivered ==
    [][ (/\ signal # <<>>
         /\ Head(signal).all_messages # <<>>
         /\ PerFileErrors(Head(signal).error_message))
        => all_messages' = Head(signal).all_messages ]_vars

\* C6: whatever the outcome of indexing, a loader that has ended has emitted
\* its completion signal exactly once.
C6_EmitsExactlyOnce == loader.pc \in {"done", "died"} => emitted = 1

\* C7: a fatal import (no conversations.csv anywhere, or a root archive that
\* cannot be read) begun on a loaded session leaves that session as it was
\* when the import began: the message list, the conversation map, the
\* basename index and the archive path.
C7_FatalLeavesSession ==
    [][ prior.all_messages # <<>> =>
          /\ (signal # <<>> /\ Head(signal).conv_files = <<>>) => Session' = prior
          /\ (loader.pc # "died" /\ loader'.pc = "died") => Session' = prior ]_vars

(***************************************************************************)
(* Media resolution as the claims speak of it.                             *)
(***************************************************************************)
\* the b~ tokens of a name: "b~" followed by a longest run of at least
\* MinTokenLen letters, digits, underscores and hyphens
Rule1Tokens(name) ==
    { SubSeq(name, i + 2, i + 1 + RunLen(name, i + 2, IdChars)) :
        i \in { j \in 1..(Len(name) - 1) :
                    /\ name[j] = "b" /\ name[j + 1] = "~"
                    /\ RunLen(name, j + 2, IdChars) >= MinTokenLen } }

\* the last call resolved the media_id of a normal message
NormalLookup == shown.op = "get_media_path" /\ ~shown.is_reported_file

\* the locations the last call looked up, over all its sub-tokens
LocationsFound ==
    UNION { SeqRange(shown.lookups[n].matches) : n \in DOMAIN shown.lookups }

\* C11: when the basename of an indexed file holds a b~ token (rule 1) and
\* the media_id of a normal message is "b~" and that token, resolving the
\* media_id looks up that file's location.
C11_TokenLookupSymmetric ==
    NormalLookup =>
        \A k \in DOMAIN basenames : \A t \in Rule1Tokens(basenames[k][1]) :
            strip(shown.media_id) = <<"b", "~">> \o t
                => <<basenames[k][2], basenames[k][3]>> \in LocationsFound

\* where sub first appears in s
AppearsAt(s, sub, i) == i + Len(sub) - 1 <= Len(s) /\ SubSeq(s, i, i + Len(sub) - 1) = sub
FirstPos(s, sub) ==
    CHOOSE i \in 1..Len(s) :
        AppearsAt(s, sub, i) /\ \A j \in 1..(i - 1) : ~AppearsAt(s, sub, j)

\* C12: resolving a compound media_id handles each distinct sub-token once
\* and returns one extracted path for each sub-token that resolved and none
\* for one that missed, in the order the sub-tokens appear in the media_id.
C12_CompoundInInputOrder ==
    NormalLookup =>
        LET paths == shown.media_paths
            looked == shown.lookups
            at(mid) == FirstPos(lower(shown.media_id), lower(mid))
        IN  /\ \A a, b \in DOMAIN looked : a # b => looked[a].mid # looked[b].mid
            /\ \A a \in DOMAIN looked :
                  (looked[a].matches # <<>>)
                      <=> (\E n \in DOMAIN paths : paths[n].mid = looked[a].mid)
            /\ \A a, b \in DOMAIN paths :
                  a < b => /\ paths[a].mid # paths[b].mid
                           /\ at(paths[a].mid) < at(paths[b].mid)

\* the last call resolved the media_id of a flagged-media message
ReportedLookup == shown.op = "get_media_path" /\ shown.is_reported_file

\* the indexed entries whose basename or internal path holds raw, whatever
\* the case of the letters
HoldingRaw(raw) ==
    { <<basenames[k][2], basenames[k][3]>> :
        k \in { n \in DOMAIN basenames :
                    \/ contains(lower(basenames[n][1]), lower(raw))
                    \/ contains(lower(basenames[n][3]), lower(raw)) } }

\* C13: resolving the media_id of a flagged-media row looks up exactly the
\* indexed entries whose basename or internal path holds the raw media_id as
\* a substring, letter case aside.
C13_ReportedBySubstring ==
    ReportedLookup =>
        /\ Len(shown.lookups) = 1
        /\ SeqRange(shown.lookups[1].matches) = HoldingRaw(strip(shown.media_id))

(***************************************************************************)
(* The message table as the claims speak of it.                            *)
(***************************************************************************)
\* the table shows the outcome of a filter call
Filtered == shown.op = "get_filtered_messages"

\* the dialog was accepted with these widget values
ByDialog == Filtered /\ shown.by.handler = "do_filter_dialog"

MessageAt(i) == all_messages[i + 1]
Returned == SeqRange(shown.result)

\* message i is in the scope of the call: its conversation, or any
InScope(i) ==
    shown.conv_id = None \/ MessageAt(i).conversation_id = shown.conv_id

Indices == { n - 1 : n \in DOMAIN all_messages }

\* the day of a timestamp
DayOf(t) == t \div TicksPerDay

IsSaved(i) == MessageAt(i).saved_by # ""

\* what the filter state asks of message i, predicate by predicate
DateAsked(i) ==
    LET f == shown.filters
        t == MessageAt(i).timestamp
    IN  /\ f.from_date # NoDate => t # NaT /\ f.from_date[1] <= t
        /\ f.to_date # NoDate => t # NaT /\ t < f.to_date[1]
SenderAsked(i) ==
    "sender_username" \in DOMAIN shown.filters /\ shown.filters.sender_username # None
        => MessageAt(i).sender_username = shown.filters.sender_username
ContentAsked(i) ==
    "content_type" \in DOMAIN shown.filters /\ shown.filters.content_type # None
        => MessageAt(i).content_type = shown.filters.content_type
SavedAsked(i) ==
    /\ shown.filters.is_saved_display = "Only Saved" => IsSaved(i)
    /\ shown.filters.is_saved_display = "Only Unsaved" => ~IsSaved(i)

\* C14: a filter call returns exactly the indices of its scope that satisfy
\* every active predicate, each once, ordered by timestamp oldest first and,
\* for equal timestamps, by ingest index.
C14_FilterExactAndOrdered ==
    Filtered =>
        /\ Returned = { i \in Indices : /\ InScope(i) /\ DateAsked(i) /\ SenderAsked(i)
                                        /\ ContentAsked(i) /\ SavedAsked(i) }
        /\ Len(shown.result) = Cardinality(Returned)
        /\ \A a, b \in DOMAIN shown.result :
              LET x == MessageAt(shown.result[a]).timestamp
                  y == MessageAt(shown.result[b]).timestamp
              IN  (a < b /\ x # NaT /\ y # NaT)
                      => x < y \/ (x = y /\ shown.result[a] < shown.result[b])

\* C15: with the filter state at 'Only Saved' every returned message is a
\* saved one, and with 'Only Unsaved' every returned message is unsaved.
C15_SavedStatusFilters ==
    Filtered => \A i \in Returned : SavedAsked(i)

\* C16: with a date range chosen in the dialog, every returned message is of
\* a day from the first day to the end day, and every message of the scope
\* of such a day that meets the other predicates is returned: the end day is
\* whole, the day after it is out.
C16_DateRangeEndDayWhole ==
    (ByDialog /\ ~shown.by.cleared) =>
        LET InDays(i) ==
                /\ MessageAt(i).timestamp # NaT
                /\ DayOf(MessageAt(i).timestamp) >= shown.by.from_day
                /\ DayOf(MessageAt(i).timestamp) <= shown.by.to_day
        IN  /\ \A i \in Returned : InDays(i)
            /\ \A i \in Indices :
                  (InScope(i) /\ InDays(i) /\ SenderAsked(i) /\ ContentAsked(i)
                   /\ SavedAsked(i)) => i \in Returned

\* a range whose end day holds a returned message while the scope holds a
\* message of the day after, which is not returned
C16_Witness ==
    /\ ByDialog /\ ~shown.by.cleared
    /\ \E i \in Returned : DayOf(MessageAt(i).timestamp) = shown.by.to_day
    /\ \E i \in Indices \ Returned :
          /\ InScope(i) /\ MessageAt(i).timestamp # NaT
          /\ DayOf(MessageAt(i).timestamp) = shown.by.to_day + 1

\* C17: with a sender and a date range both active, the set of indices
\* returned is the intersection of the set the sender alone gives and the
\* set the date range alone gives, whatever was shown before.
C17_FiltersIntersect ==
    (ByDialog /\ ~shown.by.cleared /\ shown.by.sender # "All Senders") =>
        LET d == shown.by
            only_sender == get_filters(TRUE, 1, 1, d.sender, d.type, d.content,
                                       d.saved_status)
            only_dates == get_filters(FALSE, d.from_day, d.to_day, "All Senders",
                                      d.type, d.content, d.saved_status)
        IN  Returned = masked(shown.conv_id, only_sender)
                       \cap masked(shown.conv_id, only_dates)

\* both filters active where each alone keeps a message the other drops
C17_Witness ==
    /\ ByDialog /\ ~shown.by.cleared /\ shown.by.sender # "All Senders"
    /\ Returned # {}
    /\ \E i, j \in Indices \ Returned :
          /\ InScope(i) /\ InScope(j)
          /\ SenderAsked(i) /\ ~DateAsked(i)
          /\ DateAsked(j) /\ ~SenderAsked(j)

(***************************************************************************)
(* Files whose header lacks a column, as the claim speaks of them.         *)
(***************************************************************************)
\* the f-th file parsed so far had a header without one of the columns
LacksColumn(f) == parsed[f].lacks # None

\* data row i of file f is kept with the absent field absent from the
\* message, which reads as empty
KeptWithout(f, i) ==
    \E j \in DOMAIN loader.all_messages :
        LET m == loader.all_messages[j]
        IN  /\ m.source = parsed[f].source
            /\ m.source_line = parsed[f].skip + 1 + i
            /\ parsed[f].lacks \notin DOMAIN m
            /\ \A k \in DOMAIN parsed[f].rows[i] \ {"conversation_id"} :
                  m[k] = parsed[f].rows[i][k]

\* C18: a conversations.csv whose header lacks a consumed column is ingested
\* without an error for that file, and each of its normal rows is kept, the
\* absent field empty.
C18_LackingColumnIngested ==
    \A f \in DOMAIN parsed :
        LacksColumn(f) =>
            /\ parsed[f].ok
            /\ \A i \in DOMAIN parsed[f].rows :
                  LET r == parsed[f].rows[i]
                  IN  (r.content_type # "" /\ r.conversation_id # "")
                          => KeptWithout(f, i)

(***************************************************************************)
(* Reactions as the claim speaks of them.                                  *)
(***************************************************************************)
Rendered == shown.op = "parse_reactions"

Emojis == { reaction_map[c] : c \in DOMAIN reaction_map }
FireText == << "U+1F525", " ", "(", "Fire", ")" >>

\* the user of a token as the username map shows it
DisplayOf(t) ==
    IF t.user \in DOMAIN shown.user_id_map THEN shown.user_id_map[t.user] ELSE t.user

\* a token by the table: the user, if any, then the text of code 0 or the
\* emoji and the name of the code
ByTable(t) ==
    (IF t.user = <<>> THEN <<>> ELSE DisplayOf(t) \o <<" ", "-", " ">>)
    \o (IF t.code = <<"0">> THEN << "Unset/Unspecified" >>
        ELSE << reaction_map[t.code], " ", "(", reaction_names[t.code], ")" >>)

\* C19 as the text has it: with no username map the token of code 3 on the
\* user id 00000000-0000-0000-0000-000000000000 renders as the fire emoji
\* and its name and nothing else, and a token of code 0 renders with the
\* text Unset/Unspecified and no emoji.
C19_FireRendersBare ==
    Rendered =>
        /\ (shown.user_id_map = EmptyMap
            /\ shown.tokens = << ReactionToken(ZeroId, <<"3">>, FALSE) >>)
                => shown.result = FireText
        /\ (\A n \in DOMAIN shown.tokens : shown.tokens[n].code = <<"0">>)
                => /\ "Unset/Unspecified" \in SeqRange(shown.result)
                   /\ SeqRange(shown.result) \cap Emojis = {}

\* C19: a reactions string whose tokens each carry a code of the table
\* renders token by token: the user id, or the username the map gives for
\* it, then " - ", then the emoji and the name of the code, and for code 0
\* the text Unset/Unspecified with no emoji; a token without user id renders
\* without the prefix.
C19_ReactionTable ==
    (Rendered /\ \A n \in DOMAIN shown.tokens : shown.tokens[n].code \in TableCodes) =>
        shown.result = join([n \in DOMAIN shown.tokens |-> ByTable(shown.tokens[n])],
                            <<",", " ">>)

\* with no username map, code 3 on the zero user id next to a token of code 0
C19_Witness ==
    /\ Rendered /\ shown.user_id_map = EmptyMap
    /\ \E n, m \in DOMAIN shown.tokens :
          /\ shown.tokens[n] = ReactionToken(ZeroId, <<"3">>, FALSE)
          /\ shown.tokens[m].code = <<"0">>
    /\ contains(shown.result, ZeroId \o <<" ", "-", " ">> \o FireText)

(***************************************************************************)
(* The message indices as the claim speaks of them.                        *)
(***************************************************************************)
\* the dataset-wide indices of the accepted messages
DatasetIndices == 0 .. (Len(all_messages) - 1)

\* the message of dataset index k
MessageOf(k) == all_messages[k + 1]

\* the places of index k in the list of conversation c
PlacesOf(k, c) == { n \in DOMAIN conversations[c] : conversations[c][n] = k }

\* a message but for its tags
Untagged(msg) == [f \in DOMAIN msg \ {"tags"} |-> msg[f]]

TagOperation == add_tag_to_indices \/ remove_tags_from_indices

\* the loader accepts a message by appending it: the messages it held keep
\* their places
AcceptedLast ==
    \/ loader'.all_messages = <<>>
    \/ /\ Len(loader.all_messages) <= Len(loader'.all_messages)
       /\ SubSeq(loader'.all_messages, 1, Len(loader.all_messages)) = loader.all_messages

IndicesInOrder ==
    /\ \A k \in DatasetIndices, c \in DOMAIN conversations :
          Cardinality(PlacesOf(k, c)) =
              (IF c = MessageOf(k).conversation_id THEN 1 ELSE 0)
    /\ \A k \in DatasetIndices : MessageOf(k).conversation_id \in DOMAIN conversations
    /\ \A c \in DOMAIN conversations :
          /\ conversations[c] # <<>>
          /\ SeqRange(conversations[c]) \subseteq DatasetIndices
          /\ \A n, m \in DOMAIN conversations[c] :
                n < m => conversations[c][n] < conversations[c][m]

\* C20: the accepted messages carry the indices 0..N-1, a message accepted
\* later coming after those accepted before it; every index stands exactly once in the list of the conversation
\* its message names and in no other list; every list is increasing; and
\* a tag operation leaves every list, the number of messages and every
\* message but for its tags as they were.
C20_IndicesStable ==
    /\ []IndicesInOrder
    /\ [][AcceptedLast]_vars
    /\ [][TagOperation =>
            /\ conversations' = conversations
            /\ Len(all_messages') = Len(all_messages)
            /\ \A i \in DOMAIN all_messages :
                  Untagged(all_messages'[i]) = Untagged(all_messages[i])]_vars

\* after an import of two messages of one conversation, one of them tagged
C20_Witness ==
    /\ imports >= 1 /\ ~progress_dialog
    /\ \E c \in DOMAIN conversations : conversations[c] = <<0, 1>>
    /\ \E k \in DatasetIndices : "Evidence" \in MessageOf(k).tags

(***************************************************************************)
(* The token lookup as the claim speaks of it.                             *)
(***************************************************************************)
\* the tokens of a media_id the index knows, by their place in the
\* extraction order
KnownTokens(toks, ti) == { i \in DOMAIN toks : toks[i] \in DOMAIN ti }

\* the locations of the first token of the extraction order the index knows
OfFirstKnown(toks, ti) ==
    IF KnownTokens(toks, ti) = {} THEN {}
    ELSE LET i == CHOOSE j \in KnownTokens(toks, ti) :
                    \A k \in KnownTokens(toks, ti) : j <= k
         IN  SeqRange(ti[toks[i]])

\* the rule-1 token, the rule-2 token and the rule-3 token of the media_id
\* b~<TokPlain>-<TokHex>, in the order of the rules
ThreeRules == << lower(TokPlain \o <<"-">> \o TokHex), lower(TokPlain), lower(TokHex) >>

\* C22: a call that resolves the media_id of a normal message with a token
\* index, and does not find the sub-value in the memo, looks up for it the
\* locations of the first token, in extraction order (rule 1, rule 2,
\* rule 3), that the index knows, and no location of a later token.
C22_FirstTokenWins ==
    [][(shown'.op = "get_media_path" /\ shown' # shown /\ ~shown'.is_reported_file
        /\ ~token_index'.is_none)
        => \A n \in DOMAIN shown'.lookups :
              LET mid == shown'.lookups[n].mid
              IN  strip(mid) \notin DOMAIN media_lookup_cache
                    => /\ SeqRange(shown'.lookups[n].matches)
                            = OfFirstKnown(cleaned_tokens(strip(mid)), token_index'.map)
                       /\ cleaned_tokens(<<"b", "~">> \o TokPlain \o <<"-">> \o lower(TokHex))
                            = ThreeRules]_vars

\* the media_id b~<TokPlain>-<TokHex> was looked up in an index that knows
\* its second and its third token at different locations: the location of
\* the second was found, that of the third was not
C22_Witness ==
    /\ NormalLookup /\ ~token_index.is_none
    /\ \E n \in DOMAIN shown.lookups :
          /\ cleaned_tokens(strip(shown.lookups[n].mid)) = ThreeRules
          /\ ThreeRules[1] \notin DOMAIN token_index.map
          /\ ThreeRules[2] \in DOMAIN token_index.map
          /\ ThreeRules[3] \in DOMAIN token_index.map
          /\ SeqRange(shown.lookups[n].matches) = SeqRange(token_index.map[ThreeRules[2]])
          /\ SeqRange(token_index.map[ThreeRules[3]])
                \cap SeqRange(shown.lookups[n].matches) = {}

(***************************************************************************)
(* The memo of the lookups as the claims speak of it.                      *)
(***************************************************************************)
\* what a lookup answers when nothing was looked up before it
FreshReported(raw) == find_reported_file_media(raw, basenames, EmptyMap).matches
FreshNormal(mid) == find_media_by_media_id(mid, basenames, token_index, EmptyMap).matches

\* C23: whatever lookups were made before, the reported-media lookup of a
\* media_id answers what it answers when no lookup was made before it, and
\* so does the normal lookup of each sub-value of a media_id: neither is
\* affected by earlier calls of the other.
C23_LookupsIndependent ==
    /\ ReportedLookup =>
          \A n \in DOMAIN shown.lookups :
              shown.lookups[n].matches = FreshReported(shown.lookups[n].mid)
    /\ NormalLookup =>
          \A n \in DOMAIN shown.lookups :
              shown.lookups[n].matches = FreshNormal(shown.lookups[n].mid)

\* the step that loads the payload of a completed import into the session
ImportLoads ==
    /\ process_zip_data
    /\ Head(signal).error_message = <<>> /\ Head(signal).all_messages # <<>>

\* a call of get_media_path
ResolverCall == get_media_path /\ shown'.op = "get_media_path"

\* C24: but for the step that loads a successful import, every key of the
\* memo stays with the value stored for it; a call stores under every
\* sub-value it looked up what it answered for it, an empty list for a
\* miss, and answers a memoized sub-value with the stored value.
C24_MemoMonotonic ==
    /\ [][ImportLoads \/
            \A k \in DOMAIN media_lookup_cache :
                /\ k \in DOMAIN media_lookup_cache'
                /\ media_lookup_cache'[k] = media_lookup_cache[k]]_vars
    /\ [][ResolverCall =>
            \A n \in DOMAIN shown'.lookups :
                LET raw == strip(shown'.lookups[n].mid)
                IN  /\ raw \in DOMAIN media_lookup_cache'
                    /\ media_lookup_cache'[raw] = shown'.lookups[n].matches
                    /\ raw \in DOMAIN media_lookup_cache
                          => shown'.lookups[n].matches = media_lookup_cache[raw]]_vars

\* in the session of a second import the memo holds a miss and a hit
C24_Witness ==
    /\ imports = 2 /\ ~progress_dialog /\ all_messages # <<>>
    /\ \E k \in DOMAIN media_lookup_cache : media_lookup_cache[k] = <<>>
    /\ \E k \in DOMAIN media_lookup_cache : media_lookup_cache[k] # <<>>

\* the index stays unbuilt after a successful import, and once built it is
\* kept as it is until the next successful import
UnbuiltThenKept ==
    /\ [][ImportLoads => ~token_index_built' /\ token_index'.is_none]_vars
    /\ [][token_index_built =>
            ImportLoads \/ (token_index_built' /\ token_index' = token_index)]_vars
    /\ [](token_index_built <=> ~token_index.is_none)

Extracted(k) == last.op = "extract" /\ last.loc = k

\* the file name extraction gives location k in the scratch directory
DestOf(k) ==
    LET parts == split_bang(scan.entries[k][2]) IN basename(parts[Len(parts)])

\* C27: an extraction of a location returns what every earlier extraction
\* of that location into the scratch directory returned, the path of the
\* destination or none; and an extraction whose destination is in the
\* scratch directory with bytes in it leaves the directory as it is.
C27_ExtractIdempotent ==
    /\ \A k \in 1..MaxEntries :
          /\ []((Extracted(k) /\ last.ok) => [](Extracted(k) => last.ok))
          /\ []((Extracted(k) /\ ~last.ok) => [](Extracted(k) => ~last.ok))
    /\ [][(ExtractLocation /\ last'.op = "extract"
           /\ DestOf(last'.loc) \in DOMAIN scratch
           /\ ~scratch[DestOf(last'.loc)].empty) => scratch' = scratch /\ last'.ok]_vars

\* an extraction returned a file that was in the scratch directory before
\* it: the file holds the bytes of another entry of the same base name
C27_Witness ==
    /\ last.op = "extract" /\ last.ok /\ ~last.bytes.empty
    /\ PlainFileAt(RootPaths[last.loc])
    /\ last.bytes # BytesAt(disk[Root], RootPaths[last.loc])

(***************************************************************************)
(* The hand-over of the loader's result as the claim speaks of it.         *)
(***************************************************************************)
\* the loader thread is at work
LoaderRuns == loader.pc \in {"index", "parse", "emit"}

\* the step replaces the message list or the conversation map
Replaces ==
    \/ conversations' # conversations
    \/ Len(all_messages') # Len(all_messages)
    \/ \E i \in DOMAIN all_messages :
          i \in DOMAIN all_messages' /\ Untagged(all_messages'[i]) # Untagged(all_messages[i])

\* C28: while the loader runs the message list and the conversation map
\* are those the session had when the import began; the loader emits its
\* payload with messages only after a pass over every conversations.csv;
\* and the session's list and map are replaced only by the step that
\* handles the emitted payload, by exactly that payload, the loader being
\* done.
C28_NoPartialResult ==
    /\ [](LoaderRuns => /\ all_messages = prior.all_messages
                        /\ conversations = prior.conversations)
    /\ [][(LoaderEmit /\ Len(signal') > Len(signal))
            => Len(parsed) = Len(loader.conv_files)]_vars
    /\ [][Replaces =>
            /\ process_zip_data
            /\ loader.pc = "done"
            /\ all_messages' = Head(signal).all_messages
            /\ conversations' = Head(signal).conversations]_vars

\* a second import is under way: the loader holds messages of its own and
\* the session shows those of the first import
C28_Witness ==
    /\ imports = 2 /\ LoaderRuns
    /\ loader.all_messages # <<>> /\ all_messages # <<>>
    /\ loader.all_messages # all_messages

(***************************************************************************)
(* SpecCancel: the main window is closed, at any moment of a session of    *)
(* imports.  closeEvent runs on the main thread: it asks the loader to     *)
(* stop, waits up to 1500 ms while the loader goes on, and terminates a    *)
(* loader that is still running.  ThumbnailWorkerThread, the one task      *)
(* that polls a stop flag, is constructed nowhere and so never runs.       *)
(***************************************************************************)
\* loader_thread.isRunning(): run() was entered and has not returned
isRunning == loader.pc \in {"index", "parse", "emit"}

\* closeEvent up to loader_thread.wait(1500): requestInterruption() on a
\* running loader; with no loader running the window closes at once
closeEvent ==
    /\ closing.pc = "open"
    /\ IF isRunning
       THEN /\ interruption_requested' = TRUE
            /\ closing' = [pc |-> "waiting", parsed |-> Len(parsed)]
       ELSE /\ closing' = [pc |-> "closed", parsed |-> Len(parsed)]
            /\ UNCHANGED interruption_requested
    /\ UNCHANGED <<disk, cacheVars, viewVars, scanVars, sessionVars, thumb>>

\* wait(1500) has returned, because the loader ended or because the time is
\* up: a loader still running is terminated where it stands
closeEvent_after_wait ==
    /\ closing.pc = "waiting"
    /\ loader' = IF isRunning THEN [loader EXCEPT !.pc = "terminated"] ELSE loader
    /\ closing' = [closing EXCEPT !.pc = "closed"]
    /\ UNCHANGED <<disk, cacheVars, viewVars, scanVars, media_zip_path, all_messages,
                   conversations, basenames, progress_dialog, import_error,
                   signal, emitted, parsed, prior, imports, rows_read,
                   interruption_requested, thumb>>

NextCancel ==
    \/ import_zip_dialog
    \/ LoaderIndex
    \/ LoaderReadFails
    \/ LoaderParseFile(SessionRows)
    \/ LoaderEmit
    \/ process_zip_data
    \/ closeEvent
    \/ closeEvent_after_wait

SpecCancel == Init /\ [][NextCancel]_vars

\* C29: cancellation is cooperative and coarse: once the loader was asked to
\* stop it finishes at most the file it is working on and starts no other
\* (closing.parsed is the number of files it had finished at the request),
\* and it is never ended in the middle of its work
C29_CooperativeStop ==
    /\ interruption_requested => Len(parsed) <= closing.parsed + 1
    /\ loader.pc # "terminated"

(***************************************************************************)
(* generate_thumbnail(media_path, thumb_dir).  The video branch reads one  *)
(* frame on a daemon thread and joins it for ReadTimeout seconds; the      *)
(* caller is the process of thumb.pc, the reader the one of thumb.reader.  *)
(* What cv2 does with a file is an input: the file opens or not, and its   *)
(* read returns a frame, returns none, or never returns.                   *)
(***************************************************************************)
ReadTimeout == 5
MaxThumbnailCalls == 3

ThumbMedia ==
    << [name |-> "a", ext |-> <<".", "j", "p", "g">>, opens |-> TRUE, read |-> "frame"],
       [name |-> "v", ext |-> <<".", "m", "p", "4">>, opens |-> TRUE, read |-> "frame"],
       [name |-> "w", ext |-> <<".", "M", "O", "V">>, opens |-> TRUE, read |-> "no frame"],
       [name |-> "h", ext |-> <<".", "M", "P", "4">>, opens |-> TRUE, read |-> "never"],
       [name |-> "c", ext |-> <<".", "m", "k", "v">>, opens |-> FALSE, read |-> "never"],
       [name |-> "n", ext |-> <<".", "t", "x", "t">>, opens |-> FALSE, read |-> "never"] >>

ImageExts == { <<".", "j", "p", "g">>, <<".", "j", "p", "e", "g">>, <<".", "p", "n", "g">>,
               <<".", "g", "i", "f">>, <<".", "w", "e", "b", "p">>, <<".", "b", "m", "p">>,
               <<".", "h", "e", "i", "c">>, <<".", "h", "e", "i", "f">> }
VideoExts == { <<".", "m", "p", "4">>, <<".", "m", "o", "v">>, <<".", "w", "e", "b", "m">>,
               <<".", "a", "v", "i">>, <<".", "m", "k", "v">>, <<".", "o", "g", "g">> }

\* thumb = os.path.join(thumb_dir, name + "_thumb.png")
thumb_path(m) == <<ThumbMedia[m].name, "_thumb.png">>

\* a join that waits for the thread however long it takes
join_without_timeout(waited) == FALSE

\* thread.join(timeout=timeout) gives up once the timeout has passed
join_timed_out(waited) == waited >= ReadTimeout

\* generate_thumbnail is called: an up-to-date thumbnail is returned as it
\* is; an image is converted, or Image.open raises; a video that opens gets
\* its reader thread started and joined; anything else returns None
generate_thumbnail ==
    /\ thumb.pc = "idle"
    /\ thumb.calls < MaxThumbnailCalls
    /\ \E m \in DOMAIN ThumbMedia :
         LET ext_l == lower(ThumbMedia[m].ext)
             call == [thumb EXCEPT !.media = m, !.calls = @ + 1, !.reader = "none",
                                   !.result_queue = <<>>, !.waited = 0, !.ret = FALSE]
         IN  IF thumb_path(m) \in thumb.thumb_dir
             THEN thumb' = [call EXCEPT !.result = thumb_path(m)]
             ELSE IF ext_l \in ImageExts
             THEN \E raised \in BOOLEAN :
                    thumb' = IF raised THEN [call EXCEPT !.result = <<>>]
                             ELSE [call EXCEPT !.result = thumb_path(m),
                                               !.thumb_dir = @ \cup {thumb_path(m)}]
             ELSE IF ext_l \in VideoExts /\ ThumbMedia[m].opens
             THEN thumb' = [call EXCEPT !.pc = "join", !.reader = "reading"]
             ELSE thumb' = [call EXCEPT !.result = <<>>]
    /\ UNCHANGED <<disk, cacheVars, viewVars, scanVars, sessionVars,
                   interruption_requested, closing>>

\* the reader thread: cap.read() returns, with a frame or without, and the
\* result is put on the queue; the read of some files never returns
read_frame ==
    /\ thumb.reader = "reading"
    /\ ThumbMedia[thumb.media].read # "never"
    /\ thumb' = [thumb EXCEPT !.reader = "ended",
                   !.result_queue = << ThumbMedia[thumb.media].read = "frame" >>]
    /\ UNCHANGED <<disk, cacheVars, viewVars, scanVars, sessionVars,
                   interruption_requested, closing>>

\* a second passes while the caller is in thread.join
Tick ==
    /\ thumb.pc = "join"
    /\ thumb.waited < ReadTimeout
    /\ thumb' = [thumb EXCEPT !.waited = @ + 1]
    /\ UNCHANGED <<disk, cacheVars, viewVars, scanVars, sessionVars,
                   interruption_requested, closing>>

\* thread.join(timeout=5) returns: the reader ended, or the time is up
join_returns ==
    /\ thumb.pc = "join"
    /\ thumb.reader = "ended" \/ join_timed_out(thumb.waited)
    /\ thumb' = [thumb EXCEPT !.pc = "joined"]
    /\ UNCHANGED <<disk, cacheVars, viewVars, scanVars, sessionVars,
                   interruption_requested, closing>>

\* the rest of read_frame_with_timeout: a reader still alive means no frame,
\* else the result is taken from the queue
read_frame_with_timeout ==
    /\ thumb.pc = "joined"
    /\ thumb' = [thumb EXCEPT !.pc = "release",
                   !.ret = IF thumb.reader = "reading" \/ thumb.result_queue = <<>>
                           THEN FALSE ELSE thumb.result_queue[1]]
    /\ UNCHANGED <<disk, cacheVars, viewVars, scanVars, sessionVars,
                   interruption_requested, closing>>

\* cap.release(), and the end of the call: a frame is converted and saved,
\* unless the conversion raises; without a frame None is returned
release_and_return ==
    /\ thumb.pc = "release"
    /\ \E raised \in BOOLEAN :
         thumb' = IF thumb.ret /\ ~raised
                  THEN [thumb EXCEPT !.pc = "idle", !.result = thumb_path(thumb.media),
                                     !.thumb_dir = @ \cup {thumb_path(thumb.media)}]
                  ELSE [thumb EXCEPT !.pc = "idle", !.result = <<>>]
    /\ UNCHANGED <<disk, cacheVars, viewVars, scanVars, sessionVars,
                   interruption_requested, closing>>

NextThumb ==
    \/ generate_thumbnail
    \/ read_frame
    \/ Tick
    \/ join_returns
    \/ read_frame_with_timeout
    \/ release_and_return

SpecThumb == Init /\ [][NextThumb]_vars

\* the caller's thread is scheduled and time passes; nothing makes the
\* reader's cap.read() return
FairThumb ==
    /\ SpecThumb
    /\ WF_vars(Tick)
    /\ WF_vars(join_returns)
    /\ WF_vars(read_frame_with_timeout)
    /\ WF_vars(release_and_return)

\* the call in hand is on a video whose frame read never returns
ReadNeverCompletes ==
    thumb.media \in DOMAIN ThumbMedia /\ ThumbMedia[thumb.media].read = "never"

\* C21: a call on a video whose frame read never completes comes back to
\* its caller, with None and without having written a thumbnail, and it
\* comes back only after the whole timeout has passed
C21_TimeoutIsFailure ==
    /\ (thumb.pc = "join" /\ ReadNeverCompletes)
           ~> (thumb.pc = "idle" /\ ReadNeverCompletes /\ thumb.result = <<>>)
    /\ [](ReadNeverCompletes /\ thumb.pc \in {"joined", "release"}
              => thumb.waited = ReadTimeout /\ thumb.reader = "reading")
    /\ [](ReadNeverCompletes => thumb_path(thumb.media) \notin thumb.thumb_dir)

\* a call on the video whose read hangs has returned to its caller
C21_Witness ==
    /\ thumb.pc = "idle" /\ thumb.calls > 0
    /\ ReadNeverCompletes /\ ThumbMedia[thumb.media].opens
    /\ thumb.waited = ReadTimeout /\ thumb.reader = "reading"
    /\ thumb.result = <<>>

(***************************************************************************)
(* SpecTable: imports, filter changes, filter clears, conversation         *)
(* switches and blur toggles in one session.  The disk holds two archives  *)
(* with a conversations.csv each; their rows are drawn from TableRows,     *)
(* two of which have the same timestamp.                                   *)
(***************************************************************************)
TableDisk ==
    "A.zip" :> ZipOnDisk(<< File(<<"conversations.csv">>) >>)
    @@ "B.zip" :> ZipOnDisk(<< File(<<"chat", "/", "conversations.csv">>) >>)

TableRows == { FilterRows[2], FilterRows[3], FilterRows[4] }

InitTableSession ==
    /\ disk = TableDisk
    /\ scan = [state |-> "none", exc |-> ""] @@ NoEntries
    /\ scratch = EmptyMap
    /\ last = [op |-> "none", loc |-> 0, ok |-> FALSE, bytes |-> EmptyFile]
    /\ InitSession

NextTable ==
    \/ import_zip_dialog
    \/ LoaderIndex
    \/ LoaderParseFile(TableRows)
    \/ LoaderEmit
    \/ process_zip_data
    \/ do_filter_dialog_plain
    \/ clear_all_filters
    \/ on_conv_selected_combobox
    \/ toggle_blur

SpecTable == InitTableSession /\ [][NextTable]_vars

\* the cached list is there and was computed under the filter state in force
CacheUsable ==
    /\ _cached_all_conversations_indices # <<>>
    /\ _cached_filter_hash = filter_hash(active_filters)

\* C26: the cached 'all conversations' list, whenever a refresh can or does
\* use it in place of a computation, is a list that get_filtered_messages
\* would return now for all conversations, on the dataset in use and under
\* the filters in force
C26_CachedListIsFresh ==
    /\ [](CacheUsable => _cached_all_conversations_indices[1]
                             \in get_filtered_messages(None, active_filters))
    /\ [][(shown' # shown /\ shown'.op = "cached_indices")
              => shown'.result \in (get_filtered_messages(None, active_filters))']_vars

\* after a second dataset was loaded, a refresh has taken the cached list of
\* all conversations, which is not empty
C26_Witness ==
    /\ dataset = 2
    /\ shown.op = "cached_indices"
    /\ shown.result = current_msg_indices
    /\ current_msg_indices # <<>>
    /\ _cached_all_conversations_indices = <<current_msg_indices>>

\* C30: the rows of the table model are the messages of the dataset in use
\* at the indices of current_msg_indices
C30_RowsAreCurrent ==
    /\ Len(messages_data) = Len(current_msg_indices)
    /\ { messages_data[r].msg_index : r \in DOMAIN messages_data }
           = SeqRange(current_msg_indices)
    /\ \A r \in DOMAIN messages_data :
          /\ messages_data[r].msg_index + 1 \in DOMAIN all_messages
          /\ messages_data[r].msg = all_messages[messages_data[r].msg_index + 1]

====
